---- MODULE Spec2Model ----
(***************************************************************************)
(* A model of the reminder data engine: the Tag Registry, the Note Store,  *)
(* the due-date visibility engine (NotesApprachingDueDate) and the         *)
(* aggregate-level mutators of ReminderData that persist the data file.    *)
(*                                                                         *)
(* Time.  The code keeps Unix timestamps in seconds (int64).  TLC's        *)
(* integers are 32 bits wide and the Unix value of Go's zero time          *)
(* (-62135596800 s) does not fit, so one unit of model time is one hour    *)
(* (3600 s).  Every constant of the code is a whole number of days and     *)
(* every parsed date is a UTC midnight, so each comparison of the code     *)
(* keeps its meaning; an instant inside a day is an hour of that day.      *)
(*                                                                         *)
(* A handler reads the clock several times (CurrentUnixTimestamp); the     *)
(* model runs each handler at the single instant `now`.                    *)
(*                                                                         *)
(* Notes are held by pointer in the code ([]*Note); the model names a note *)
(* by its position in the Note Store.                                      *)
(***************************************************************************)
EXTENDS Integers, Sequences, FiniteSets, TLC

VARIABLES
    notes,          \* ReminderData.Notes
    tags,           \* ReminderData.Tags
    lastBackupAt,   \* ReminderData.LastBackupAt
    updatedAt,      \* ReminderData.UpdatedAt (BaseStruct)
    disk,           \* content of the data file (DataFile), NoFile before it exists
    backups,        \* the backup files beside the data file and the "latest" alias
    user,           \* ReminderData.User
    peer,           \* the aggregate held by a second session on the same data file
    now,            \* the clock read by CurrentUnixTimestamp
    ret             \* what the last call returned and did

vars == <<notes, tags, lastBackupAt, updatedAt, disk, backups, user, peer, now, ret>>

aggregate == <<notes, tags, lastBackupAt, updatedAt>>

-----------------------------------------------------------------------------
(* Temporal utilities                                                      *)

\* One day, in units of model time (the code: 24 * 60 * 60 seconds).
daysSecs == 24

\* time.Time{}.Unix(): what a failed time.Parse yields (-62135596800 s).
ZeroTimeUnix == -17259888

IsLeapYear(y) == (y % 4 = 0) /\ ((y % 100 # 0) \/ (y % 400 = 0))

DaysIn(y, m) ==
    IF m = 2 THEN (IF IsLeapYear(y) THEN 29 ELSE 28)
    ELSE IF m \in {4, 6, 9, 11} THEN 30 ELSE 31

\* Days from 1970-01-01 to the civil date y-m-d (proleptic Gregorian, UTC).
DaysFromCivil(y, m, d) ==
    LET yy  == IF m <= 2 THEN y - 1 ELSE y
        era == yy \div 400
        yoe == yy - era * 400
        mp  == IF m > 2 THEN m - 3 ELSE m + 9
        doy == (153 * mp + 2) \div 5 + d - 1
        doe == yoe * 365 + yoe \div 4 - yoe \div 100 + doy
    IN  era * 146097 + doe - 719468

\* The civil date of a day number: time.Time.Date().
CivilFromDays(z) ==
    LET zz  == z + 719468
        era == zz \div 146097
        doe == zz - era * 146097
        yoe == (doe - doe \div 1460 + doe \div 36524 - doe \div 146096) \div 365
        doy == doe - (365 * yoe + yoe \div 4 - yoe \div 100)
        mp  == (5 * doy + 2) \div 153
        d   == doy - (153 * mp + 2) \div 5 + 1
        m   == IF mp < 10 THEN mp + 3 ELSE mp - 9
        y   == yoe + era * 400
    IN  [year |-> IF m <= 2 THEN y + 1 ELSE y, month |-> m, day |-> d]

\* UnixTimestampToTime(t).Date(): the UTC calendar date of a timestamp.
UnixTimestampToTime(unixTimestamp) == CivilFromDays(unixTimestamp \div daysSecs)

\* Mutant of ParseDateUnix: a day past the end of the month rolls over into the
\* next month (as time.Date normalises it).
ParseDateUnix_Normalizes(y, m, d) ==
    IF /\ y \in 0..9999
       /\ m \in 1..12
       /\ d >= 1
       /\ d <= 31
    THEN (DaysFromCivil(y, m, 1) + d - 1) * daysSecs
    ELSE ZeroTimeUnix

\* time.Parse of a numeric year-month-day followed by Unix(): the midnight of
\* the date, or the zero time when the month or the day is out of range (the
\* code drops the error).
ParseDateUnix(y, m, d) ==
    IF /\ y \in 0..9999
       /\ m \in 1..12
       /\ d >= 1
       /\ d <= DaysIn(y, m)
    THEN DaysFromCivil(y, m, d) * daysSecs
    ELSE ZeroTimeUnix

UnixTimestampForCorrespondingCurrentYear(month, day, t) ==
    ParseDateUnix(UnixTimestampToTime(t).year, month, day)

UnixTimestampForCorrespondingCurrentYearMonth(day, t) ==
    LET cur == UnixTimestampToTime(t)
    IN  ParseDateUnix(cur.year, cur.month, day)

InWindow(currentTimestamp, ts, daysBefore, daysAfter) ==
    /\ currentTimestamp >= ts - daysBefore * daysSecs
    /\ currentTimestamp <= ts + daysAfter * daysSecs

\* cur, prev, next: noteTimestampCurrent, noteTimestampPrevious, noteTimestampNext.
IsTimeForRepeatNote(cur, prev, next, daysBefore, daysAfter, t) ==
    \/ InWindow(t, cur, daysBefore, daysAfter)
    \/ InWindow(t, prev, daysBefore, daysAfter)
    \/ InWindow(t, next, daysBefore, daysAfter)

\* The instant hour h of the day y-m-d.
At(y, m, d, h) == DaysFromCivil(y, m, d) * daysSecs + h

-----------------------------------------------------------------------------
(* Slices of int                                                           *)

IntPresentInSlice(a, list) == \E i \in 1..Len(list) : list[i] = a

RECURSIVE FilterIn(_, _)
FilterIn(arr1, arr2) ==
    IF arr1 = <<>> THEN <<>>
    ELSE LET e1   == Head(arr1)
             hits == Cardinality({j \in 1..Len(arr2) : arr2[j] = e1})
             rest == FilterIn(Tail(arr1), arr2)
         IN  [k \in 1..hits |-> e1] \o rest

\* One copy of e1 for every pair (e1, e2) of equal members, in arr1's order.
GetCommonMembersIntSlices(arr1, arr2) == FilterIn(arr1, arr2)

-----------------------------------------------------------------------------
(* Strings                                                                 *)

UpperChars == "ABCDEFGHIJKLMNOPQRSTUVWXYZ"
LowerChars == "abcdefghijklmnopqrstuvwxyz"

CharAt(str, i) == SubSeq(str, i, i)

IsSpace(c) == c = " "

RECURSIVE TrimLeft(_)
TrimLeft(str) ==
    IF Len(str) > 0 /\ IsSpace(CharAt(str, 1)) THEN TrimLeft(Tail(str)) ELSE str

RECURSIVE TrimRight(_)
TrimRight(str) ==
    IF Len(str) > 0 /\ IsSpace(CharAt(str, Len(str)))
    THEN TrimRight(SubSeq(str, 1, Len(str) - 1))
    ELSE str

\* strings.TrimSpace / utils.TrimString
TrimString(str) == TrimRight(TrimLeft(str))

\* unicode.ToLower on one character: the upper-case letter at position i becomes
\* the lower-case letter at position i; every other character is kept.
UpperSeq == [i \in 1..Len(UpperChars) |-> CharAt(UpperChars, i)]
LowerSeq == [i \in 1..Len(LowerChars) |-> CharAt(LowerChars, i)]

LowerChar(c) ==
    IF \E i \in DOMAIN UpperSeq : UpperSeq[i] = c
    THEN LowerSeq[CHOOSE i \in DOMAIN UpperSeq : UpperSeq[i] = c]
    ELSE c

\* strings.ToLower
RECURSIVE ToLower(_)
ToLower(str) ==
    IF Len(str) = 0 THEN "" ELSE LowerChar(CharAt(str, 1)) \o ToLower(Tail(str))

-----------------------------------------------------------------------------
(* Tag Registry                                                            *)

Tag(id, slug, group, t) ==
    [id |-> id, slug |-> slug, group |-> group, createdAt |-> t, updatedAt |-> t]

basicTagsMap ==
    << [slug |-> "current",         group |-> ""],
       [slug |-> "priority-urgent", group |-> "priority"],
       [slug |-> "priority-medium", group |-> "priority"],
       [slug |-> "priority-low",    group |-> "priority"],
       [slug |-> "repeat-annually", group |-> "repeat"],
       [slug |-> "repeat-monthly",  group |-> "repeat"],
       [slug |-> "tips",            group |-> "tips"] >>

\* BasicTags(): the index of the range loop is the id (0-based).
BasicTags(t) ==
    [index \in 1..Len(basicTagsMap) |->
        Tag(index - 1, basicTagsMap[index].slug, basicTagsMap[index].group, t)]

\* Tags.IdsForGroup: the ids of the tags of a group, in registry order.
RECURSIVE IdsForGroup(_, _)
IdsForGroup(tgs, group) ==
    IF tgs = <<>> THEN <<>>
    ELSE (IF Head(tgs).group = group THEN <<Head(tgs).id>> ELSE <<>>)
         \o IdsForGroup(Tail(tgs), group)

\* Mutant of TagIdsForGroup: the ids of the tags whose slug names a recurrence
\* policy, whatever their group.
TagIdsForGroup_KnownSlugs(tgs, group) ==
    LET known(k) == tgs[k].slug \in {"repeat-annually", "repeat-monthly"}
    IN  SelectSeq([k \in 1..Len(tgs) |-> IF known(k) THEN tgs[k].id ELSE -1],
                  LAMBDA id : id # -1)

TagIdsForGroup(tgs, group) == IdsForGroup(tgs, group)

\* Tags.FromSlug: the position of the tag with the slug, 0 for nil.
FromSlug(tgs, slug) ==
    IF \E i \in 1..Len(tgs) : tgs[i].slug = slug
    THEN CHOOSE i \in 1..Len(tgs) :
            /\ tgs[i].slug = slug
            /\ \A j \in 1..(i - 1) : tgs[j].slug # slug
    ELSE 0

TagFromSlug(tgs, slug) == FromSlug(tgs, slug)

\* Bytes in ascending order: Go compares strings byte-wise.
CharOrder == " -0123456789ABCDEFGHIJKLMNOPQRSTUVWXYZ^abcdefghijklmnopqrstuvwxyz"

CharSeq == [i \in 1..Len(CharOrder) |-> CharAt(CharOrder, i)]

CharRank(c) ==
    IF \E i \in DOMAIN CharSeq : CharSeq[i] = c
    THEN CHOOSE i \in DOMAIN CharSeq : CharSeq[i] = c
    ELSE 0

RECURSIVE StrLess(_, _)
StrLess(a, b) ==
    IF Len(b) = 0 THEN FALSE
    ELSE IF Len(a) = 0 THEN TRUE
    ELSE IF CharAt(a, 1) = CharAt(b, 1) THEN StrLess(Tail(a), Tail(b))
    ELSE CharRank(CharAt(a, 1)) < CharRank(CharAt(b, 1))

\* Tags.Less: by slug, ascending.
TagLess(a, b) == StrLess(a.slug, b.slug)

RECURSIVE InsertTag(_, _)
InsertTag(sorted, tag) ==
    IF sorted = <<>> THEN <<tag>>
    ELSE IF TagLess(tag, Head(sorted)) THEN <<tag>> \o sorted
    ELSE <<Head(sorted)>> \o InsertTag(Tail(sorted), tag)

\* sort.Sort(reminderData.Tags): the registry reordered by slug.
RECURSIVE SortTags(_)
SortTags(tgs) ==
    IF tgs = <<>> THEN <<>>
    ELSE InsertTag(SortTags(SubSeq(tgs, 1, Len(tgs) - 1)), tgs[Len(tgs)])

\* Tags.Slugs
Slugs(tgs) == [i \in 1..Len(tgs) |-> tgs[i].slug]

-----------------------------------------------------------------------------
(* Note Store                                                              *)

NoteStatus_Pending == "pending"
NoteStatus_Done == "done"

\* Mutant of WithStatus: the status is not compared.
WithStatus_All(ns, status) == [i \in 1..Len(ns) |-> i]

\* Notes.WithStatus: the notes (their positions) with the status, in order.
RECURSIVE WithStatusFrom(_, _, _)
WithStatusFrom(ns, status, i) ==
    IF i > Len(ns) THEN <<>>
    ELSE (IF ns[i].status = status THEN <<i>> ELSE <<>>)
         \o WithStatusFrom(ns, status, i + 1)

WithStatus(ns, status) == WithStatusFrom(ns, status, 1)

-----------------------------------------------------------------------------
(* Due-date visibility engine                                              *)

\* Mutant of PlainDue: the first instant of the 7th day before is left out.
PlainDue_Strict(note, noteIDsWithRepeat, currentTimestamp) ==
    LET minDay == note.completeBy - 7 * daysSecs
    IN  /\ Len(noteIDsWithRepeat) = 0
        /\ note.completeBy # 0
        /\ currentTimestamp > minDay

\* Mutant of PlainDue: only a positive completeBy counts as a due date.
PlainDue_Positive(note, noteIDsWithRepeat, currentTimestamp) ==
    LET minDay == note.completeBy - 7 * daysSecs
    IN  /\ Len(noteIDsWithRepeat) = 0
        /\ note.completeBy > 0
        /\ currentTimestamp >= minDay

\* The plain policy: no tag of group "repeat", shown from 7 days before.
PlainDue(note, noteIDsWithRepeat, currentTimestamp) ==
    LET minDay == note.completeBy - 7 * daysSecs
    IN  /\ Len(noteIDsWithRepeat) = 0
        /\ note.completeBy # 0
        /\ currentTimestamp >= minDay

\* Mutant of AnnualDue: the days of the comment above the check (7 days in
\* advance, 2 days past) instead of 3 and 7.
AnnualDue_CommentDays(note, tgs, t) ==
    LET repeatAnnuallyTag == TagFromSlug(tgs, "repeat-annually")
    IN  /\ repeatAnnuallyTag # 0
        /\ IntPresentInSlice(tgs[repeatAnnuallyTag].id, note.tagIds)
        /\ LET date == UnixTimestampToTime(note.completeBy)
               noteTimestampCurrent ==
                   UnixTimestampForCorrespondingCurrentYear(date.month, date.day, t)
               noteTimestampPrevious == noteTimestampCurrent - 365 * daysSecs
               noteTimestampNext == noteTimestampCurrent + 365 * daysSecs
           IN  IsTimeForRepeatNote(noteTimestampCurrent, noteTimestampPrevious,
                                   noteTimestampNext, 7, 2, t)

\* The repeat-annually policy of a note with a tag of group "repeat".
AnnualDue(note, tgs, t) ==
    LET repeatAnnuallyTag == TagFromSlug(tgs, "repeat-annually")
    IN  /\ repeatAnnuallyTag # 0
        /\ IntPresentInSlice(tgs[repeatAnnuallyTag].id, note.tagIds)
        /\ LET date == UnixTimestampToTime(note.completeBy)
               noteTimestampCurrent ==
                   UnixTimestampForCorrespondingCurrentYear(date.month, date.day, t)
               noteTimestampPrevious == noteTimestampCurrent - 365 * daysSecs
               noteTimestampNext == noteTimestampCurrent + 365 * daysSecs
           IN  IsTimeForRepeatNote(noteTimestampCurrent, noteTimestampPrevious,
                                   noteTimestampNext, 3, 7, t)

\* Mutant of MonthlyDue: the days of the comment above the check (3 days in
\* advance, 2 days past) instead of 1 and 3.
MonthlyDue_CommentDays(note, tgs, t) ==
    LET repeatMonthlyTag == TagFromSlug(tgs, "repeat-monthly")
    IN  /\ repeatMonthlyTag # 0
        /\ IntPresentInSlice(tgs[repeatMonthlyTag].id, note.tagIds)
        /\ LET date == UnixTimestampToTime(note.completeBy)
               noteTimestampCurrent ==
                   UnixTimestampForCorrespondingCurrentYearMonth(date.day, t)
               noteTimestampPrevious == noteTimestampCurrent - 30 * daysSecs
               noteTimestampNext == noteTimestampCurrent + 30 * daysSecs
           IN  IsTimeForRepeatNote(noteTimestampCurrent, noteTimestampPrevious,
                                   noteTimestampNext, 3, 2, t)

\* The repeat-monthly policy of a note with a tag of group "repeat".
MonthlyDue(note, tgs, t) ==
    LET repeatMonthlyTag == TagFromSlug(tgs, "repeat-monthly")
    IN  /\ repeatMonthlyTag # 0
        /\ IntPresentInSlice(tgs[repeatMonthlyTag].id, note.tagIds)
        /\ LET date == UnixTimestampToTime(note.completeBy)
               noteTimestampCurrent ==
                   UnixTimestampForCorrespondingCurrentYearMonth(date.day, t)
               noteTimestampPrevious == noteTimestampCurrent - 30 * daysSecs
               noteTimestampNext == noteTimestampCurrent + 30 * daysSecs
           IN  IsTimeForRepeatNote(noteTimestampCurrent, noteTimestampPrevious,
                                   noteTimestampNext, 1, 3, t)

\* Mutant of DueAppends: the monthly check is the else-branch of the annual tag
\* test, so a note with both tags is never checked against the monthly window.
DueAppends_ElseIf(ns, tgs, i, t) ==
    LET note == ns[i]
        repeatTagIDs == TagIdsForGroup(tgs, "repeat")
        noteIDsWithRepeat == GetCommonMembersIntSlices(note.tagIds, repeatTagIDs)
        repeatAnnuallyTag == TagFromSlug(tgs, "repeat-annually")
        hasAnnual == /\ repeatAnnuallyTag # 0
                     /\ IntPresentInSlice(tgs[repeatAnnuallyTag].id, note.tagIds)
    IN  (IF PlainDue(note, noteIDsWithRepeat, t) THEN <<i>> ELSE <<>>)
        \o (IF Len(noteIDsWithRepeat) > 0 /\ note.completeBy # 0
            THEN IF hasAnnual
                 THEN (IF AnnualDue(note, tgs, t) THEN <<i>> ELSE <<>>)
                 ELSE (IF MonthlyDue(note, tgs, t) THEN <<i>> ELSE <<>>)
            ELSE <<>>)

\* One pass of the loop body: what the note at position i appends to currentNotes.
DueAppends(ns, tgs, i, t) ==
    LET note == ns[i]
        repeatTagIDs == TagIdsForGroup(tgs, "repeat")
        noteIDsWithRepeat == GetCommonMembersIntSlices(note.tagIds, repeatTagIDs)
    IN  (IF PlainDue(note, noteIDsWithRepeat, t) THEN <<i>> ELSE <<>>)
        \o (IF Len(noteIDsWithRepeat) > 0 /\ note.completeBy # 0
            THEN (IF AnnualDue(note, tgs, t) THEN <<i>> ELSE <<>>)
                 \o (IF MonthlyDue(note, tgs, t) THEN <<i>> ELSE <<>>)
            ELSE <<>>)

RECURSIVE DueLoop(_, _, _, _)
DueLoop(ns, tgs, pendingNotes, t) ==
    IF pendingNotes = <<>> THEN <<>>
    ELSE DueAppends(ns, tgs, Head(pendingNotes), t)
         \o DueLoop(ns, tgs, Tail(pendingNotes), t)

\* ReminderData.NotesApprachingDueDate: the returned notes, as positions.
NotesApprachingDueDate(ns, tgs, t) ==
    DueLoop(ns, tgs, WithStatus(ns, NoteStatus_Pending), t)

-----------------------------------------------------------------------------
(* Notes and tags: construction and the mutators of a note                 *)

\* NewTag: the prompts answer with slugInput and groupInput; promptErr names
\* the prompt that fails ("slug", "group") or is "" when none does.
\* Mutant of NewTag: the slug is trimmed but not lower-cased.
NewTag_NoLower(tagID, slugInput, groupInput, promptErr, t) ==
    LET slug == TrimString(slugInput)
    IN  IF promptErr = "slug"
        THEN [tag |-> Tag(tagID, "", "", t), err |-> "prompt failed"]
        ELSE IF Len(TrimString(slug)) = 0
        THEN [tag |-> Tag(tagID, slug, "", t), err |-> "Tag's slug is empty"]
        ELSE IF promptErr = "group"
        THEN [tag |-> Tag(tagID, slug, "", t), err |-> "prompt failed"]
        ELSE [tag |-> Tag(tagID, slug, ToLower(groupInput), t), err |-> ""]

NewTag(tagID, slugInput, groupInput, promptErr, t) ==
    LET slug == ToLower(TrimString(slugInput))
    IN  IF promptErr = "slug"
        THEN [tag |-> Tag(tagID, "", "", t), err |-> "prompt failed"]
        ELSE IF Len(TrimString(slug)) = 0
        THEN [tag |-> Tag(tagID, slug, "", t), err |-> "Tag's slug is empty"]
        ELSE IF promptErr = "group"
        THEN [tag |-> Tag(tagID, slug, "", t), err |-> "prompt failed"]
        ELSE [tag |-> Tag(tagID, slug, ToLower(groupInput), t), err |-> ""]

\* NewNote: the prompt answers with textInput, or fails.
NewNote(tagIDs, textInput, promptErr, t) ==
    LET note == [text       |-> IF promptErr THEN "" ELSE TrimString(textInput),
                 comments   |-> <<>>,
                 status     |-> NoteStatus_Pending,
                 tagIds     |-> tagIDs,
                 completeBy |-> 0,
                 createdAt  |-> t,
                 updatedAt  |-> t]
    IN  IF promptErr THEN [note |-> note, err |-> "prompt failed"]
        ELSE IF Len(TrimString(note.text)) = 0
        THEN [note |-> note, err |-> "Note's text is empty"]
        ELSE [note |-> note, err |-> ""]

\* Mutant of UpdateTags: updatedAt is left as it was.
UpdateTags_NoTouch(note, tagIDs, t) ==
    [note |-> [note EXCEPT !.tagIds = tagIDs], err |-> ""]

\* Note.UpdateTags
UpdateTags(note, tagIDs, t) ==
    [note |-> [note EXCEPT !.tagIds = tagIDs, !.updatedAt = t], err |-> ""]

\* Comment{Text, CreatedAt}
Comment(text, t) == [text |-> text, createdAt |-> t]

\* Mutant of AddComment: the text is tested without trimming.
AddComment_NoTrim(note, text, t) ==
    IF Len(text) = 0
    THEN [note |-> note, err |-> "Note's comment text is empty"]
    ELSE [note |-> [note EXCEPT !.comments = Append(@, Comment(text, t)),
                                !.updatedAt = t],
          err  |-> ""]

\* Mutant of AddComment: the new comment is put first.
AddComment_Prepends(note, text, t) ==
    IF Len(TrimString(text)) = 0
    THEN [note |-> note, err |-> "Note's comment text is empty"]
    ELSE [note |-> [note EXCEPT !.comments = <<Comment(text, t)>> \o @,
                                !.updatedAt = t],
          err  |-> ""]

\* Note.AddComment: the text is stored as given (not trimmed).
AddComment(note, text, t) ==
    IF Len(TrimString(text)) = 0
    THEN [note |-> note, err |-> "Note's comment text is empty"]
    ELSE [note |-> [note EXCEPT !.comments = Append(@, Comment(text, t)),
                                !.updatedAt = t],
          err  |-> ""]

\* Note.UpdateText: the text is stored as given (not trimmed).
UpdateText(note, text, t) ==
    IF Len(TrimString(text)) = 0
    THEN [note |-> note, err |-> "Note's text is empty"]
    ELSE [note |-> [note EXCEPT !.text = text, !.updatedAt = t], err |-> ""]

Digits == "0123456789"
DigitSeq == [i \in 1..Len(Digits) |-> CharAt(Digits, i)]

IsDigit(c) == \E i \in DOMAIN DigitSeq : DigitSeq[i] = c

DigitValue(c) == (CHOOSE i \in DOMAIN DigitSeq : DigitSeq[i] = c) - 1

\* The number a string of digits denotes.
RECURSIVE Atoi(_)
Atoi(str) ==
    IF Len(str) = 0 THEN 0
    ELSE 10 * Atoi(SubSeq(str, 1, Len(str) - 1)) + DigitValue(CharAt(str, Len(str)))

\* The length of the longest prefix of str made of digits, up to max.
RECURSIVE DigitPrefixLen(_, _)
DigitPrefixLen(str, max) ==
    IF max = 0 \/ Len(str) = 0 \/ ~IsDigit(CharAt(str, 1)) THEN 0
    ELSE 1 + DigitPrefixLen(Tail(str), max - 1)

\* time.Parse("2-1-2006", text): a day of one or two digits, "-", a month of one
\* or two digits, "-", a year of four digits, and nothing else; the date must
\* exist.  ok is whether the text parses; unix is the value of Unix() on the
\* result, which is the zero time when it does not.
ParseDayMonthYear(text) ==
    LET dLen  == DigitPrefixLen(text, 2)
        rest1 == SubSeq(text, dLen + 1, Len(text))
        sep1  == Len(rest1) > 0 /\ CharAt(rest1, 1) = "-"
        rest2 == IF sep1 THEN Tail(rest1) ELSE ""
        mLen  == DigitPrefixLen(rest2, 2)
        rest3 == SubSeq(rest2, mLen + 1, Len(rest2))
        sep2  == Len(rest3) > 0 /\ CharAt(rest3, 1) = "-"
        rest4 == IF sep2 THEN Tail(rest3) ELSE ""
        yLen  == DigitPrefixLen(rest4, 4)
        shape == dLen > 0 /\ sep1 /\ mLen > 0 /\ sep2 /\ yLen = 4 /\ Len(rest4) = 4
        d     == Atoi(SubSeq(text, 1, dLen))
        m     == Atoi(SubSeq(rest2, 1, mLen))
        y     == Atoi(rest4)
        ok    == shape /\ m \in 1..12 /\ d >= 1 /\ d <= DaysIn(y, m)
    IN  [ok |-> ok, unix |-> IF ok THEN ParseDateUnix(y, m, d) ELSE ZeroTimeUnix]

\* Mutant of UpdateCompleteBy: "nil" is parsed like any other text.
UpdateCompleteBy_NoNil(note, text, t) ==
    IF Len(TrimString(text)) = 0
    THEN [note |-> note, err |-> "Note's due date is empty"]
    ELSE [note |-> [note EXCEPT !.completeBy = ParseDayMonthYear(text).unix,
                                !.updatedAt = t],
          err  |-> ""]

\* Mutant of UpdateCompleteBy: a text that does not parse is refused.
UpdateCompleteBy_Strict(note, text, t) ==
    IF Len(TrimString(text)) = 0
    THEN [note |-> note, err |-> "Note's due date is empty"]
    ELSE IF text = "nil"
    THEN [note |-> [note EXCEPT !.completeBy = 0, !.updatedAt = t], err |-> ""]
    ELSE IF ~ParseDayMonthYear(text).ok
    THEN [note |-> note, err |-> "parse failed"]
    ELSE [note |-> [note EXCEPT !.completeBy = ParseDayMonthYear(text).unix,
                                !.updatedAt = t],
          err  |-> ""]

\* Note.UpdateCompleteBy: the error of time.Parse is dropped.
UpdateCompleteBy(note, text, t) ==
    IF Len(TrimString(text)) = 0
    THEN [note |-> note, err |-> "Note's due date is empty"]
    ELSE IF text = "nil"
    THEN [note |-> [note EXCEPT !.completeBy = 0, !.updatedAt = t], err |-> ""]
    ELSE [note |-> [note EXCEPT !.completeBy = ParseDayMonthYear(text).unix,
                                !.updatedAt = t],
          err  |-> ""]

\* Mutant of UpdateStatus: updatedAt is set on every call that is not blocked.
UpdateStatus_AlwaysTouches(note, status, repeatTagIDs, t) ==
    LET noteIDsWithRepeat == GetCommonMembersIntSlices(note.tagIds, repeatTagIDs)
    IN  IF Len(noteIDsWithRepeat) # 0
        THEN [note |-> note, err |-> ""]
        ELSE [note |-> [note EXCEPT !.status = status, !.updatedAt = t], err |-> ""]

\* Mutant of UpdateStatus: the repeat-group tags do not block the update.
UpdateStatus_NoRepeatCheck(note, status, repeatTagIDs, t) ==
    IF note.status # status
    THEN [note |-> [note EXCEPT !.status = status, !.updatedAt = t], err |-> ""]
    ELSE [note |-> note, err |-> ""]

\* Note.UpdateStatus
UpdateStatus(note, status, repeatTagIDs, t) ==
    LET noteIDsWithRepeat == GetCommonMembersIntSlices(note.tagIds, repeatTagIDs)
    IN  IF Len(noteIDsWithRepeat) # 0
        THEN [note |-> note, err |-> ""]
        ELSE IF note.status # status
        THEN [note |-> [note EXCEPT !.status = status, !.updatedAt = t], err |-> ""]
        ELSE [note |-> note, err |-> ""]

-----------------------------------------------------------------------------
(* The aggregate and its data file                                         *)

\* User: the profile of BlankReminder when no input is asked, and a filled one.
BlankUser == [name |-> "", emailId |-> ""]
NamedUser == [name |-> "n", emailId |-> "n@x.y"]

NoFile ==
    [exists |-> FALSE, user |-> [name |-> "", email_id |-> ""], notes |-> <<>>,
     tags |-> <<>>, last_backup_at |-> 0, updated_at |-> 0]

\* No backup file and no "latest" alias (latest = 0).
NoBackups == [files |-> {}, latest |-> 0]

\* No second session is running.
NoPeer == [notes |-> <<>>, tags |-> <<>>, lastBackupAt |-> 0, updatedAt |-> 0]

\* The JSON objects of a comment, a note, a tag and the user, by field name.
MarshalComment(c) == [text |-> c.text, created_at |-> c.createdAt]

MarshalNote(n) ==
    [text        |-> n.text,
     comments    |-> [k \in 1..Len(n.comments) |-> MarshalComment(n.comments[k])],
     status      |-> n.status,
     tag_ids     |-> n.tagIds,
     complete_by |-> n.completeBy,
     created_at  |-> n.createdAt,
     updated_at  |-> n.updatedAt]

MarshalTag(tg) ==
    [id |-> tg.id, slug |-> tg.slug, group |-> tg.group,
     created_at |-> tg.createdAt, updated_at |-> tg.updatedAt]

MarshalUser(u) == [name |-> u.name, email_id |-> u.emailId]

\* json.MarshalIndent(&reminderData): the content written to the data file.
Marshal(ns, tgs, lba, upd) ==
    [exists         |-> TRUE,
     user           |-> MarshalUser(user),
     notes          |-> [i \in 1..Len(ns) |-> MarshalNote(ns[i])],
     tags           |-> [i \in 1..Len(tgs) |-> MarshalTag(tgs[i])],
     last_backup_at |-> lba,
     updated_at     |-> upd]

UnmarshalComment(o) == [text |-> o.text, createdAt |-> o.created_at]

\* Mutant of UnmarshalNote: the key of the tag ids does not match, so the field
\* keeps its zero value.
UnmarshalNote_TagIdsLost(o) ==
    [text       |-> o.text,
     comments   |-> [k \in 1..Len(o.comments) |-> UnmarshalComment(o.comments[k])],
     status     |-> o.status,
     tagIds     |-> <<>>,
     completeBy |-> o.complete_by,
     createdAt  |-> o.created_at,
     updatedAt  |-> o.updated_at]

UnmarshalNote(o) ==
    [text       |-> o.text,
     comments   |-> [k \in 1..Len(o.comments) |-> UnmarshalComment(o.comments[k])],
     status     |-> o.status,
     tagIds     |-> o.tag_ids,
     completeBy |-> o.complete_by,
     createdAt  |-> o.created_at,
     updatedAt  |-> o.updated_at]

UnmarshalTag(o) ==
    [id |-> o.id, slug |-> o.slug, group |-> o.group,
     createdAt |-> o.created_at, updatedAt |-> o.updated_at]

UnmarshalUser(o) == [name |-> o.name, emailId |-> o.email_id]

\* json.Unmarshal(byteValue, &reminderData)
Unmarshal(doc) ==
    [user         |-> UnmarshalUser(doc.user),
     notes        |-> [i \in 1..Len(doc.notes) |-> UnmarshalNote(doc.notes[i])],
     tags         |-> [i \in 1..Len(doc.tags) |-> UnmarshalTag(doc.tags[i])],
     lastBackupAt |-> doc.last_backup_at,
     updatedAt    |-> doc.updated_at]

\* ret: the operation called last, the error it returned ("" for nil), the
\* positions or ids it returned, the strings it returned, and whether it wrote
\* the data file.
NoRet == [op |-> "", err |-> "", out |-> <<>>, strs |-> <<>>, wrote |-> FALSE]

\* Mutant of UpdateDataFile: a failed write rolls the aggregate back.
UpdateDataFile_RollsBack(ns, tgs, lba, ok, r) ==
    /\ notes' = IF ok THEN ns ELSE notes
    /\ tags' = IF ok THEN tgs ELSE tags
    /\ lastBackupAt' = IF ok THEN lba ELSE lastBackupAt
    /\ updatedAt' = IF ok THEN now ELSE updatedAt
    /\ disk' = IF ok THEN Marshal(ns, tgs, lba, now) ELSE disk
    /\ ret' = [r EXCEPT !.err = IF ok THEN "" ELSE "write failed", !.wrote = ok]
    /\ UNCHANGED <<user, peer>>

\* Mutant of UpdateDataFile: the write is refused when the data file no longer
\* holds what this session last read or wrote.
UpdateDataFile_ChecksFile(ns, tgs, lba, ok, r) ==
    LET stale == disk.exists /\ disk # Marshal(notes, tags, lastBackupAt, updatedAt)
        done  == ok /\ ~stale
    IN  /\ notes' = ns
        /\ tags' = tgs
        /\ lastBackupAt' = lba
        /\ updatedAt' = now
        /\ disk' = IF done THEN Marshal(ns, tgs, lba, now) ELSE disk
        /\ ret' = [r EXCEPT !.err = IF done THEN "" ELSE "write failed", !.wrote = done]
        /\ UNCHANGED <<user, peer>>

\* UpdateDataFile on the aggregate (ns, tgs, lba): UpdatedAt is set first, then
\* the file is written; ok is whether ioutil.WriteFile succeeds.
UpdateDataFile(ns, tgs, lba, ok, r) ==
    /\ notes' = ns
    /\ tags' = tgs
    /\ lastBackupAt' = lba
    /\ updatedAt' = now
    /\ disk' = IF ok THEN Marshal(ns, tgs, lba, now) ELSE disk
    /\ ret' = [r EXCEPT !.err = IF ok THEN "" ELSE "write failed", !.wrote = ok]
    /\ UNCHANGED <<user, peer>>

\* A call that returns before UpdateDataFile.
ReturnOnly(r) ==
    /\ ret' = r
    /\ UNCHANGED <<notes, tags, lastBackupAt, updatedAt, disk, backups, user, peer>>

\* Mutant of nextPossibleTagId: ids counted from 1.
nextPossibleTagId_OneBased(tgs) == Len(tgs) + 1

nextPossibleTagId(tgs) == Len(tgs)

-----------------------------------------------------------------------------
(* Bounds and inputs                                                       *)

MaxTags == 8
MaxNotes == 2
MaxTicks == 1
MaxComments == 2

\* The instant the session starts.
T0 == At(2024, 3, 1, 9)

SlugInputs == {"", "w", " W ", "b"}
GroupInputs == {"", "Repeat"}
TagPromptErrs == {"", "slug", "group"}
TextInputs == {"", " a "}
TagIdInputs == {<<>>, <<4>>, <<0, 5>>}
StatusInputs == {NoteStatus_Pending, NoteStatus_Done}
WriteOutcomes == {TRUE, FALSE}
NewTextInputs == {" ", "c"}
CommentInputs == {"", " ", "k "}
DateInputs == {"", " ", "nil", " nil", "15-3-2024", "31-2-2024"}
GapInputs == {1, 2, T0 + 1}
BackupOutcomes == {"ok", "read", "write", "ln"}

-----------------------------------------------------------------------------
(* Operations of ReminderData                                              *)

Called(op) == [NoRet EXCEPT !.op = op]

\* Mutant of RegisterBasicTags: the registry is seeded whatever it holds.
RegisterBasicTags_Overwrites(ok) ==
    /\ UpdateDataFile(notes, BasicTags(now), lastBackupAt, ok,
                      Called("RegisterBasicTags"))
    /\ UNCHANGED <<backups, now>>

RegisterBasicTags(ok) ==
    /\ IF Len(tags) # 0
       THEN ReturnOnly([Called("RegisterBasicTags") EXCEPT
                            !.err = "Skipped registering basic tags as tag list is not empty"])
       ELSE UpdateDataFile(notes, BasicTags(now), lastBackupAt, ok,
                           Called("RegisterBasicTags"))
    /\ UNCHANGED <<backups, now>>

\* Mutant of newTagAppend: the flag is overwritten on every pass of the loop, so
\* only the last tag of the registry is compared.
newTagAppend_LastOnly(tag, ok, r) ==
    LET isNewSlug == Len(tags) = 0 \/ tags[Len(tags)].slug # tag.slug
    IN  IF ~isNewSlug
        THEN ReturnOnly([r EXCEPT !.err = "Tag Already Exists"])
        ELSE UpdateDataFile(notes, Append(tags, tag), lastBackupAt, ok, r)

newTagAppend(tag, ok, r) ==
    LET isNewSlug == \A i \in 1..Len(tags) : tags[i].slug # tag.slug
    IN  IF ~isNewSlug
        THEN ReturnOnly([r EXCEPT !.err = "Tag Already Exists"])
        ELSE UpdateDataFile(notes, Append(tags, tag), lastBackupAt, ok, r)

NewTagRegistration(slugInput, groupInput, promptErr, ok) ==
    /\ LET tagID == nextPossibleTagId(tags)
           made  == NewTag(tagID, slugInput, groupInput, promptErr, now)
       IN  IF made.err # ""
           THEN ReturnOnly([Called("NewTagRegistration") EXCEPT
                                !.err = made.err, !.out = <<0>>])
           ELSE newTagAppend(made.tag, ok,
                             [Called("NewTagRegistration") EXCEPT !.out = <<tagID>>])
    /\ Len(tags') <= MaxTags
    /\ UNCHANGED <<backups, now>>

SortedTagSlugs ==
    /\ tags' = SortTags(tags)
    /\ ret' = [Called("SortedTagSlugs") EXCEPT !.strs = Slugs(SortTags(tags))]
    /\ UNCHANGED <<notes, lastBackupAt, updatedAt, disk, backups, user, peer, now>>

newNoteAppend(note, ok, r) ==
    UpdateDataFile(Append(notes, note), tags, lastBackupAt, ok, r)

NewNoteRegistration(tagIDs, textInput, promptErr, ok) ==
    /\ Len(notes) < MaxNotes
    /\ LET made == NewNote(tagIDs, textInput, promptErr, now)
       IN  IF made.err # ""
           THEN ReturnOnly([Called("NewNoteRegistration") EXCEPT !.err = made.err])
           ELSE newNoteAppend(made.note, ok,
                              [Called("NewNoteRegistration") EXCEPT
                                   !.out = <<Len(notes) + 1>>])
    /\ UNCHANGED <<backups, now>>

\* Mutant of UpdateNoteTags: the wrapper returns without UpdateDataFile.
UpdateNoteTags_NoPersist(i, tagIDs, ok) ==
    /\ i \in 1..Len(notes)
    /\ notes' = [notes EXCEPT ![i] = UpdateTags(notes[i], tagIDs, now).note]
    /\ ret' = Called("UpdateNoteTags")
    /\ UNCHANGED <<tags, lastBackupAt, updatedAt, disk, user, peer, backups, now>>

UpdateNoteTags(i, tagIDs, ok) ==
    /\ i \in 1..Len(notes)
    /\ LET done == UpdateTags(notes[i], tagIDs, now)
       IN  UpdateDataFile([notes EXCEPT ![i] = done.note], tags, lastBackupAt, ok,
                          Called("UpdateNoteTags"))
    /\ UNCHANGED <<backups, now>>

UpdateNoteStatus(i, status, ok) ==
    /\ i \in 1..Len(notes)
    /\ LET repeatTagIDs == TagIdsForGroup(tags, "repeat")
           done == UpdateStatus(notes[i], status, repeatTagIDs, now)
       IN  UpdateDataFile([notes EXCEPT ![i] = done.note], tags, lastBackupAt, ok,
                          Called("UpdateNoteStatus"))
    /\ UNCHANGED <<backups, now>>

UpdateNoteText(i, text, ok) ==
    /\ i \in 1..Len(notes)
    /\ LET done == UpdateText(notes[i], text, now)
       IN  IF done.err # ""
           THEN ReturnOnly([Called("UpdateNoteText") EXCEPT !.err = done.err])
           ELSE UpdateDataFile([notes EXCEPT ![i] = done.note], tags, lastBackupAt, ok,
                               Called("UpdateNoteText"))
    /\ UNCHANGED <<backups, now>>

UpdateNoteCompleteBy(i, text, ok) ==
    /\ i \in 1..Len(notes)
    /\ LET done == UpdateCompleteBy(notes[i], text, now)
       IN  IF done.err # ""
           THEN ReturnOnly([Called("UpdateNoteCompleteBy") EXCEPT !.err = done.err])
           ELSE UpdateDataFile([notes EXCEPT ![i] = done.note], tags, lastBackupAt, ok,
                               Called("UpdateNoteCompleteBy"))
    /\ UNCHANGED <<backups, now>>

AddNoteComment(i, text, ok) ==
    /\ i \in 1..Len(notes)
    /\ Len(notes[i].comments) < MaxComments
    /\ LET done == AddComment(notes[i], text, now)
       IN  IF done.err # ""
           THEN ReturnOnly([Called("AddNoteComment") EXCEPT !.err = done.err])
           ELSE UpdateDataFile([notes EXCEPT ![i] = done.note], tags, lastBackupAt, ok,
                               Called("AddNoteComment"))
    /\ UNCHANGED <<backups, now>>

\* CreateBackup: the data file is read and copied to the file named after the
\* clock, then the "latest" alias is pointed at the copy.  outcome is the step
\* that fails ("read", "write", "ln") or "ok"; reading fails when there is no
\* data file.  Yields the backup files afterwards and the error.
CreateBackup(outcome) ==
    LET copy == [at |-> now, content |-> disk]
        kept == {b \in backups.files : b.at # now}
    IN  IF outcome = "read" \/ ~disk.exists
        THEN [backups |-> backups, err |-> "read failed"]
        ELSE IF outcome = "write"
        THEN [backups |-> backups, err |-> "write failed"]
        ELSE IF outcome = "ln"
        THEN [backups |-> [backups EXCEPT !.files = kept \cup {copy}],
              err     |-> "ln failed"]
        ELSE [backups |-> [files |-> kept \cup {copy}, latest |-> now], err |-> ""]

\* Mutant of AutoBackup: a gap equal to gapSecs is skipped too.
AutoBackup_SkipsEqual(gapSecs, outcome, ok) ==
    LET currentTime == now
        gap == currentTime - lastBackupAt
    IN  IF gap <= gapSecs
        THEN /\ ReturnOnly(Called("AutoBackup"))
             /\ UNCHANGED now
        ELSE /\ backups' = CreateBackup(outcome).backups
             /\ UpdateDataFile(notes, tags, currentTime, ok, Called("AutoBackup"))
             /\ UNCHANGED now

\* AutoBackup(gapSecs): the error of CreateBackup is dropped.
AutoBackup(gapSecs, outcome, ok) ==
    LET currentTime == now
        gap == currentTime - lastBackupAt
    IN  IF gap < gapSecs
        THEN /\ ReturnOnly(Called("AutoBackup"))
             /\ UNCHANGED now
        ELSE /\ backups' = CreateBackup(outcome).backups
             /\ UpdateDataFile(notes, tags, currentTime, ok, Called("AutoBackup"))
             /\ UNCHANGED now

\* ReadDataFile at the start of a session: the aggregate is what the data file
\* holds.
ReadDataFile ==
    /\ IF ~disk.exists
       THEN ReturnOnly([Called("ReadDataFile") EXCEPT !.err = "read failed"])
       ELSE LET reminderData == Unmarshal(disk)
            IN  /\ user' = reminderData.user
                /\ notes' = reminderData.notes
                /\ tags' = reminderData.tags
                /\ lastBackupAt' = reminderData.lastBackupAt
                /\ updatedAt' = reminderData.updatedAt
                /\ ret' = Called("ReadDataFile")
                /\ UNCHANGED <<disk, backups, peer>>
    /\ UNCHANGED now

\* The clock advances between calls.
Tick ==
    /\ now < T0 + MaxTicks
    /\ now' = now + 1
    /\ ret' = NoRet
    /\ UNCHANGED <<notes, tags, lastBackupAt, updatedAt, disk, backups, user, peer>>

\* BlankReminder: the aggregate before its data file is created.
Init ==
    /\ user = BlankUser
    /\ backups = NoBackups
    /\ peer = NoPeer
    /\ notes = <<>>
    /\ tags = <<>>
    /\ lastBackupAt = 0
    /\ updatedAt = 0
    /\ disk = NoFile
    /\ now = T0
    /\ ret = NoRet

TagOps ==
    \/ \E ok \in WriteOutcomes : RegisterBasicTags(ok)
    \/ \E slugInput \in SlugInputs, groupInput \in GroupInputs,
          promptErr \in TagPromptErrs, ok \in WriteOutcomes :
            NewTagRegistration(slugInput, groupInput, promptErr, ok)
    \/ SortedTagSlugs

NoteOps ==
    \/ \E tagIDs \in TagIdInputs, textInput \in TextInputs,
          promptErr \in BOOLEAN, ok \in WriteOutcomes :
            NewNoteRegistration(tagIDs, textInput, promptErr, ok)
    \/ \E i \in 1..MaxNotes, tagIDs \in TagIdInputs, ok \in WriteOutcomes :
            UpdateNoteTags(i, tagIDs, ok)
    \/ \E i \in 1..MaxNotes, status \in StatusInputs, ok \in WriteOutcomes :
            UpdateNoteStatus(i, status, ok)

Next == TagOps \/ NoteOps \/ Tick

\* The whole aggregate, from a blank reminder.
Spec == Init /\ [][Next]_vars

\* The Tag Registry alone: seeding, registration and the sorting accessor.
NextTags == TagOps \/ Tick

SpecTags == Init /\ [][NextTags]_vars

\* The Note Store of a first run: MakeSureFileExists has seeded the basic tags
\* and written the data file.
InitSeeded ==
    /\ user = BlankUser
    /\ backups = NoBackups
    /\ peer = NoPeer
    /\ notes = <<>>
    /\ tags = BasicTags(T0)
    /\ lastBackupAt = 0
    /\ updatedAt = T0
    /\ disk = Marshal(<<>>, BasicTags(T0), 0, T0)
    /\ now = T0
    /\ ret = NoRet

NextNotes == NoteOps \/ Tick

SpecNotes == InitSeeded /\ [][NextNotes]_vars

\* Backups of a first-run store that receives notes.
BackupOps ==
    \E gapSecs \in GapInputs, outcome \in BackupOutcomes, ok \in WriteOutcomes :
        AutoBackup(gapSecs, outcome, ok)

RegisterOps ==
    \E tagIDs \in TagIdInputs, textInput \in TextInputs,
       promptErr \in BOOLEAN, ok \in WriteOutcomes :
        NewNoteRegistration(tagIDs, textInput, promptErr, ok)

NextBackup == BackupOps \/ RegisterOps \/ Tick

SpecBackup == InitSeeded /\ [][NextBackup]_vars

\* A store of two notes registered one unit of time before the session: one
\* without tags, one with the repeat-annually tag, a comment and a due date.
EditEpoch == T0 - 1

EditNotes ==
    << [text |-> "a", comments |-> <<>>, status |-> NoteStatus_Pending,
        tagIds |-> <<>>, completeBy |-> 0,
        createdAt |-> EditEpoch, updatedAt |-> EditEpoch],
       [text |-> "b", comments |-> <<Comment("j", EditEpoch)>>,
        status |-> NoteStatus_Pending, tagIds |-> <<4>>,
        completeBy |-> ParseDayMonthYear("10-3-2019").unix,
        createdAt |-> EditEpoch, updatedAt |-> EditEpoch] >>

InitEdit ==
    /\ user = BlankUser
    /\ backups = NoBackups
    /\ peer = NoPeer
    /\ notes = EditNotes
    /\ tags = BasicTags(EditEpoch)
    /\ lastBackupAt = 0
    /\ updatedAt = EditEpoch
    /\ disk = Marshal(notes, tags, lastBackupAt, updatedAt)
    /\ now = T0
    /\ ret = NoRet

EditTagIds == {<<>>, <<5>>}

\* The five note mutators, through their aggregate-level wrappers.
EditOps ==
    \/ \E i \in 1..MaxNotes, text \in NewTextInputs : UpdateNoteText(i, text, TRUE)
    \/ \E i \in 1..MaxNotes, text \in DateInputs : UpdateNoteCompleteBy(i, text, TRUE)
    \/ \E i \in 1..MaxNotes, text \in CommentInputs : AddNoteComment(i, text, TRUE)
    \/ \E i \in 1..MaxNotes, tagIDs \in EditTagIds : UpdateNoteTags(i, tagIDs, TRUE)
    \/ \E i \in 1..MaxNotes, status \in StatusInputs : UpdateNoteStatus(i, status, TRUE)

\* Every call of the session is made at the instant T0.
NextEdit == EditOps

SpecEdit == InitEdit /\ [][NextEdit]_vars

\* Every mutating operation of the aggregate, once per kind of input, with
\* writes of the data file that may fail, and the reload of the data file by a
\* new session.  The backup copy cannot be written in this session (AutoBackup
\* drops that error), so the backup files stay as they are.
InitPersist ==
    /\ user = NamedUser
    /\ backups = NoBackups
    /\ peer = NoPeer
    /\ notes = <<>>
    /\ tags = <<>>
    /\ lastBackupAt = 0
    /\ updatedAt = 0
    /\ disk = NoFile
    /\ now = T0
    /\ ret = NoRet

PersistOps ==
    \/ \E ok \in WriteOutcomes : RegisterBasicTags(ok)
    \/ \E ok \in WriteOutcomes : NewTagRegistration("w", "", "", ok)
    \/ \E ok \in WriteOutcomes :
            Len(notes) < 1 /\ NewNoteRegistration(<<>>, " a ", FALSE, ok)
    \/ \E ok \in WriteOutcomes : UpdateNoteText(1, "c", ok)
    \/ \E ok \in WriteOutcomes : AddNoteComment(1, "k ", ok)
    \/ \E ok \in WriteOutcomes : UpdateNoteCompleteBy(1, "15-3-2024", ok)
    \/ \E ok \in WriteOutcomes : UpdateNoteTags(1, <<0>>, ok)
    \/ \E ok \in WriteOutcomes : UpdateNoteStatus(1, NoteStatus_Done, ok)
    \/ \E ok \in WriteOutcomes : AutoBackup(1, "write", ok)

NextPersist == PersistOps \/ ReadDataFile

SpecPersist == InitPersist /\ [][NextPersist]_vars

-----------------------------------------------------------------------------
(* The due-date visibility engine on its own                               *)

\* When the tags and the notes of the engine's inputs were created.
DueEpoch == At(2019, 1, 1, 0)

\* completeBy values: none, and the midnights UpdateCompleteBy stores.
DueDates ==
    {0, At(2019, 3, 10, 0), At(2020, 3, 10, 0), At(2022, 6, 15, 0), At(2024, 3, 15, 0)}

DueTagIds == {<<>>, <<0>>, <<4>>, <<5>>, <<4, 5>>, <<0, 4>>}

DueRegistries == {BasicTags(DueEpoch), SortTags(BasicTags(DueEpoch))}

DueMonths == {<<2023, 3>>, <<2024, 3>>, <<2023, 6>>, <<2024, 2>>}
DueDays == {4, 6, 7, 8, 10, 13, 14, 17, 18, 20}
DueHours == {0, 23}

\* The instants the engine is asked at.
NowSet ==
    {At(ym[1], ym[2], d, h) : ym \in DueMonths, d \in DueDays, h \in DueHours}
    \cup {T + 1000 * daysSecs : T \in DueDates \ {0}}

\* A second note, touched after the first: pending, no tags, due 15 March 2024.
Companion ==
    [text |-> "b", comments |-> <<>>, status |-> NoteStatus_Pending, tagIds |-> <<>>,
     completeBy |-> At(2024, 3, 15, 0), createdAt |-> DueEpoch, updatedAt |-> DueEpoch + 1]

InitDue ==
    /\ user = BlankUser
    /\ backups = NoBackups
    /\ peer = NoPeer
    /\ \E status \in StatusInputs, tagIDs \in DueTagIds, completeBy \in DueDates :
         notes = << [text |-> "a", comments |-> <<>>, status |-> status,
                     tagIds |-> tagIDs, completeBy |-> completeBy,
                     createdAt |-> DueEpoch, updatedAt |-> DueEpoch],
                    Companion >>
    /\ tags \in DueRegistries
    /\ lastBackupAt = 0
    /\ updatedAt = DueEpoch + 1
    /\ disk = Marshal(notes, tags, lastBackupAt, updatedAt)
    /\ now \in NowSet
    /\ ret = NoRet

\* Mutant of NotesApprachingDueDateCall: the tags are looked up through the
\* sorting accessor, which reorders the registry in place.
NotesApprachingDueDateCall_Sorting ==
    /\ ret' = [Called("NotesApprachingDueDate") EXCEPT
                   !.out = NotesApprachingDueDate(notes, tags, now)]
    /\ tags' = SortTags(tags)
    /\ UNCHANGED <<notes, lastBackupAt, updatedAt, disk, backups, user, peer, now>>

\* A call of NotesApprachingDueDate at the instant now.
NotesApprachingDueDateCall ==
    /\ ret' = [Called("NotesApprachingDueDate") EXCEPT
                   !.out = NotesApprachingDueDate(notes, tags, now)]
    /\ UNCHANGED <<notes, tags, lastBackupAt, updatedAt, disk, backups, user, peer, now>>

\* Time passes to a later instant.
DueTick ==
    /\ now' \in NowSet
    /\ now' > now
    /\ ret' = NoRet
    /\ UNCHANGED <<notes, tags, lastBackupAt, updatedAt, disk, backups, user, peer>>

NextDue == NotesApprachingDueDateCall \/ DueTick

SpecDue == InitDue /\ [][NextDue]_vars

-----------------------------------------------------------------------------
(* Properties of the due-date visibility engine (under SpecDue)            *)

\* The last call was NotesApprachingDueDate and ret.out is what it returned.
Asked == ret.op = "NotesApprachingDueDate"

\* The note at position i is among the returned notes.
Selected(i) == \E k \in 1..Len(ret.out) : ret.out[k] = i

\* The note carries a tag of the registry with the slug / of the group.
CarriesSlug(note, slug) ==
    \E k \in 1..Len(tags) :
        tags[k].slug = slug /\ IntPresentInSlice(tags[k].id, note.tagIds)

CarriesGroup(note, group) ==
    \E k \in 1..Len(tags) :
        tags[k].group = group /\ IntPresentInSlice(tags[k].id, note.tagIds)

Today == UnixTimestampToTime(now)

OnDay(month, day) == Today.month = month /\ Today.day = day

OnDayOfMonth(day) == Today.day = day

\* now lies in [occ - before days, occ + after days] for occ, occ - shift days
\* or occ + shift days.
InWindows(occ, shift, before, after) ==
    \E o \in {occ, occ - shift * daysSecs, occ + shift * daysSecs} :
        now >= o - before * daysSecs /\ now <= o + after * daysSecs

\* The occurrence of completeBy's month and day in the year of now.
AnnualOccurrence(completeBy) ==
    LET date == UnixTimestampToTime(completeBy)
    IN  ParseDateUnix(Today.year, date.month, date.day)

\* The occurrence of completeBy's day in the year and month of now.
MonthlyOccurrence(completeBy) ==
    ParseDateUnix(Today.year, Today.month, UnixTimestampToTime(completeBy).day)

InAnnualWindow(completeBy) == InWindows(AnnualOccurrence(completeBy), 365, 3, 7)

InMonthlyWindow(completeBy) == InWindows(MonthlyOccurrence(completeBy), 30, 1, 3)

\* A pending note with the repeat-annually tag, due on 10 March of a past year.
AnnualMarch10(note) ==
    /\ note.status = NoteStatus_Pending
    /\ note.completeBy # 0
    /\ CarriesSlug(note, "repeat-annually")
    /\ UnixTimestampToTime(note.completeBy).month = 3
    /\ UnixTimestampToTime(note.completeBy).day = 10
    /\ UnixTimestampToTime(note.completeBy).year < Today.year

MonthlyDay15(note) ==
    /\ note.status = NoteStatus_Pending
    /\ note.completeBy # 0
    /\ CarriesSlug(note, "repeat-monthly")
    /\ UnixTimestampToTime(note.completeBy).day = 15

PlainPending(note) ==
    /\ note.status = NoteStatus_Pending
    /\ note.completeBy # 0
    /\ ~CarriesGroup(note, "repeat")

\* C3: a pending note with no repeat-group tag and completeBy = T # 0 is returned
\* exactly when now >= T - 7 days: at T - 7 days, at no earlier instant, and at
\* every later one (there is no upper bound).
C3_PlainDueDate ==
    Asked =>
        \A i \in 1..Len(notes) :
            PlainPending(notes[i]) =>
                (Selected(i) <=> now >= notes[i].completeBy - 7 * daysSecs)

\* C3 witness: the note is returned 1000 days after its due date.
C3_Witness ==
    /\ Asked
    /\ PlainPending(notes[1])
    /\ now = notes[1].completeBy + 1000 * daysSecs
    /\ Selected(1)

\* C4: every returned note is pending and has completeBy # 0.
C4_OnlyPendingWithDueDate ==
    Asked =>
        \A k \in 1..Len(ret.out) :
            /\ notes[ret.out[k]].status = NoteStatus_Pending
            /\ notes[ret.out[k]].completeBy # 0

\* C4 witness: a call that returned a note while the store holds a note that is
\* done, or has no due date, with a repeat tag inside its window or a due date
\* long past.
C4_Witness ==
    /\ Asked
    /\ Selected(2)
    /\ ~Selected(1)
    /\ \/ /\ notes[1].status = NoteStatus_Done
          /\ notes[1].completeBy # 0
          /\ now >= notes[1].completeBy
       \/ /\ notes[1].completeBy = 0
          /\ CarriesGroup(notes[1], "repeat")

\* C5: a pending note with a due date that carries both repeat-annually and
\* repeat-monthly is returned exactly when now is inside the annual window or
\* inside the monthly window.
C5_BothPolicies ==
    Asked =>
        \A i \in 1..Len(notes) :
            ( /\ notes[i].status = NoteStatus_Pending
              /\ notes[i].completeBy # 0
              /\ CarriesSlug(notes[i], "repeat-annually")
              /\ CarriesSlug(notes[i], "repeat-monthly") )
            => (Selected(i) <=> \/ InAnnualWindow(notes[i].completeBy)
                                \/ InMonthlyWindow(notes[i].completeBy))

\* C5 witness: a note with both tags returned through the monthly policy alone.
C5_Witness ==
    /\ Asked
    /\ notes[1].status = NoteStatus_Pending
    /\ CarriesSlug(notes[1], "repeat-annually")
    /\ CarriesSlug(notes[1], "repeat-monthly")
    /\ ~InAnnualWindow(notes[1].completeBy)
    /\ InMonthlyWindow(notes[1].completeBy)
    /\ Selected(1)

\* C6: a call of NotesApprachingDueDate changes no note, no tag, neither order,
\* nor lastBackupAt, nor the data file.
C6_ReadOnly ==
    [][ret'.op = "NotesApprachingDueDate" =>
            UNCHANGED <<notes, tags, lastBackupAt, updatedAt, disk, backups, user>>]_vars

\* C6 witness: a call that returned both notes of a store whose registry is not
\* in slug order.
C6_Witness ==
    /\ Asked
    /\ Selected(1)
    /\ Selected(2)
    /\ tags # SortTags(tags)

-----------------------------------------------------------------------------
(* Properties of the Tag Registry (under SpecTags)                         *)

\* The ids of the n tags are exactly 0..n-1 (so no two tags share an id).
TagIdsExact == {tags[i].id : i \in 1..Len(tags)} = 0..(Len(tags) - 1)

\* A step keeps every tag and its id, and a tag it creates as the k-th tag of the
\* registry (appended at position k) has id k-1.
TagIdsStable ==
    /\ Len(tags') >= Len(tags)
    /\ \A i \in 1..Len(tags) :
          \E j \in 1..Len(tags') :
              tags'[j].slug = tags[i].slug /\ tags'[j].id = tags[i].id
    /\ \A k \in (Len(tags) + 1)..Len(tags') : tags'[k].id = k - 1

\* C7: after any sequence of basic-tag seeding, tag registrations (accepted or
\* rejected) and SortedTagSlugs calls the ids of the n tags are exactly 0..n-1,
\* the k-th created tag has id k-1, and no tag's id ever changes.
C7_TagIds == []TagIdsExact /\ [][TagIdsStable]_vars

\* C7 witness: the basic tags were seeded and sorted in place, and an eighth tag
\* was then registered with id 7.
C7_Witness ==
    /\ Len(tags) = 8
    /\ tags[2].slug = "priority-low"
    /\ tags[2].id = 3
    /\ tags[8].id = 7
    /\ ret.op = "NewTagRegistration"
    /\ ret.err = ""

\* The registry holds a tag with the slug.
SlugPresent(slug) == \E i \in 1..Len(tags) : tags[i].slug = slug

\* C8: registering a tag whose trimmed, lower-cased slug is the slug of a tag of
\* the registry returns an error ("Tag Already Exists" when both prompts
\* answered), leaves the registry as it was and does not write the data file.
C8_DuplicateSlugRejected ==
    [][\A slugInput \in SlugInputs, groupInput \in GroupInputs,
          promptErr \in TagPromptErrs, ok \in WriteOutcomes :
            ( /\ SlugPresent(ToLower(TrimString(slugInput)))
              /\ NewTagRegistration(slugInput, groupInput, promptErr, ok) )
            => /\ ret'.err # ""
               /\ (promptErr = "") => (ret'.err = "Tag Already Exists")
               /\ tags' = tags
               /\ ~ret'.wrote
               /\ disk' = disk]_vars

\* C8 witness: a registration was rejected as a duplicate although the slug typed
\* differs from the stored one in case and blanks only, after another tag was
\* registered behind it.
C8_Witness ==
    /\ ret.op = "NewTagRegistration"
    /\ ret.err = "Tag Already Exists"
    /\ ~ret.wrote
    /\ Len(tags) = 2
    /\ tags[1].slug = "w"
    /\ tags[2].slug = "b"

\* The slug of the i-th tag is non-empty, has no blank at either end, has no
\* upper-case letter, and is the slug of no other tag.
SlugWellFormed(i) ==
    /\ Len(tags[i].slug) > 0
    /\ TrimString(tags[i].slug) = tags[i].slug
    /\ ToLower(tags[i].slug) = tags[i].slug
    /\ \A j \in 1..Len(tags) : (j # i) => (tags[j].slug # tags[i].slug)

\* C19: in every state reached by basic-tag seeding and tag registrations every
\* tag's slug is non-empty, trimmed, lower-case and different from the slug of
\* every other tag of the registry.
C19_SlugsWellFormed == \A i \in 1..Len(tags) : SlugWellFormed(i)

\* C19 witness: the basic tags were seeded and an eighth tag was registered, its
\* slug stored as "w".
C19_Witness ==
    /\ Len(tags) = 8
    /\ tags[1].slug = "current"
    /\ tags[7].slug = "tips"
    /\ tags[8].slug = "w"
    /\ ret.op = "NewTagRegistration"
    /\ ret.err = ""

\* The registry tgs is the seven basic tags, in order, with ids 0..6.
SevenBasicTags(tgs) ==
    /\ Len(tgs) = 7
    /\ [i \in 1..7 |-> tgs[i].id] = <<0, 1, 2, 3, 4, 5, 6>>
    /\ [i \in 1..7 |-> tgs[i].slug] =
          <<"current", "priority-urgent", "priority-medium", "priority-low",
            "repeat-annually", "repeat-monthly", "tips">>
    /\ [i \in 1..7 |-> tgs[i].group] =
          <<"", "priority", "priority", "priority", "repeat", "repeat", "tips">>

\* C20: RegisterBasicTags on an empty registry installs exactly the seven basic
\* tags with ids 0..6 in the fixed order and with their groups, and then writes
\* the aggregate to the data file (the error of the write is what it returns); on
\* a non-empty registry it returns an error, leaves the registry as it was and
\* does not write the data file.
C20_RegisterBasicTags ==
    [][(ret'.op = "RegisterBasicTags") =>
          IF Len(tags) = 0
          THEN /\ SevenBasicTags(tags')
               /\ ret'.err \in {"", "write failed"}
               /\ ret'.wrote = (ret'.err = "")
               /\ ret'.wrote =>
                     disk' = Marshal(notes', tags', lastBackupAt', updatedAt')
               /\ ~ret'.wrote => disk' = disk
          ELSE /\ ret'.err # ""
               /\ tags' = tags
               /\ ~ret'.wrote
               /\ disk' = disk]_vars

\* C20 witness: seeding was rejected on the registry that an earlier seeding had
\* installed and written.
C20_Witness ==
    /\ ret.op = "RegisterBasicTags"
    /\ ret.err = "Skipped registering basic tags as tag list is not empty"
    /\ SevenBasicTags(tags)
    /\ disk.exists
    /\ Len(disk.tags) = 7

-----------------------------------------------------------------------------
(* Properties of the Note Store (under SpecNotes)                          *)

\* C9: Note.UpdateStatus returns no error; it leaves status and updatedAt as they
\* were when the note carries a repeat-group tag or already has the status, and
\* otherwise sets the status and updatedAt = now; no other field of the note, and
\* no other note, changes.
C9_UpdateStatus ==
    [][\A i \in 1..MaxNotes, status \in StatusInputs, ok \in WriteOutcomes :
            UpdateNoteStatus(i, status, ok) =>
                LET old  == notes[i]
                    new  == notes'[i]
                    skip == CarriesGroup(old, "repeat") \/ status = old.status
                IN  /\ UpdateStatus(old, status, TagIdsForGroup(tags, "repeat"), now).err = ""
                    /\ ok => ret'.err = ""
                    /\ skip => (new.status = old.status /\ new.updatedAt = old.updatedAt)
                    /\ ~skip => (new.status = status /\ new.updatedAt = now)
                    /\ new.text = old.text
                    /\ new.comments = old.comments
                    /\ new.tagIds = old.tagIds
                    /\ new.completeBy = old.completeBy
                    /\ new.createdAt = old.createdAt
                    /\ Len(notes') = Len(notes)
                    /\ \A j \in 1..Len(notes) : j # i => notes'[j] = notes[j]]_vars

\* C9 witness: after a call of UpdateNoteStatus one note was marked done at this
\* instant, and another, with a repeat-group tag, is still pending and untouched.
C9_Witness ==
    /\ ret.op = "UpdateNoteStatus"
    /\ Len(notes) = 2
    /\ \E i, j \in 1..2 :
          /\ notes[i].status = NoteStatus_Done
          /\ notes[i].createdAt < now
          /\ notes[i].updatedAt = now
          /\ CarriesGroup(notes[j], "repeat")
          /\ notes[j].status = NoteStatus_Pending
          /\ notes[j].updatedAt < now

\* C10 as claimed: in every reachable state a note with a repeat-group tag is
\* pending.
C10_RepeatAlwaysPending ==
    \A i \in 1..Len(notes) :
        CarriesGroup(notes[i], "repeat") => notes[i].status = NoteStatus_Pending

\* C10 amended: every note is registered pending and no operation changes the
\* status of a note that carries a repeat-group tag; a note marked done before
\* UpdateNoteTags gave it such a tag stays done.
C10_RepeatStatusFrozen ==
    [][\A i \in 1..Len(notes') :
            /\ (i <= Len(notes) /\ CarriesGroup(notes[i], "repeat"))
                    => notes'[i].status = notes[i].status
            /\ i > Len(notes) => notes'[i].status = NoteStatus_Pending]_vars

\* C10 witness: UpdateNoteStatus was called on a store that holds a done note
\* with a repeat-group tag, and the note is still done.
C10_Witness ==
    /\ ret.op = "UpdateNoteStatus"
    /\ \E i \in 1..Len(notes) :
          /\ CarriesGroup(notes[i], "repeat")
          /\ notes[i].status = NoteStatus_Done

-----------------------------------------------------------------------------
(* Properties of AutoBackup (under SpecBackup)                             *)

\* A backup file named after now holds what the data file held before the call.
BackupCreated ==
    \E b \in backups'.files : b.at = now /\ b.content = disk

-----------------------------------------------------------------------------
(* Properties of the note mutators (under SpecEdit)                        *)

\* C12: UpdateCompleteBy(note, "nil") returns no error, sets completeBy to 0 and
\* updatedAt to now whatever completeBy was, and leaves text, comments, status,
\* tagIds and createdAt as they were.
C12_ClearDueDate ==
    [][ret'.op = "UpdateNoteCompleteBy" =>
        \A i \in 1..MaxNotes :
            UpdateNoteCompleteBy(i, "nil", TRUE) =>
                /\ UpdateCompleteBy(notes[i], "nil", now).err = ""
                /\ ret'.err = ""
                /\ notes'[i].completeBy = 0
                /\ notes'[i].updatedAt = now
                /\ notes'[i].text = notes[i].text
                /\ notes'[i].comments = notes[i].comments
                /\ notes'[i].status = notes[i].status
                /\ notes'[i].tagIds = notes[i].tagIds
                /\ notes'[i].createdAt = notes[i].createdAt]_vars

\* C12 witness: the due date of the second note (10 March 2019 at first) was
\* cleared by the last call, after its text was changed.
C12_Witness ==
    /\ ret.op = "UpdateNoteCompleteBy"
    /\ ret.err = ""
    /\ notes[2].completeBy = 0
    /\ notes[2].updatedAt = now
    /\ notes[2].text = "c"
    /\ notes[2].createdAt = EditEpoch

\* The texts of the inputs that are empty after trimming.
EmptyTexts ==
    {text \in NewTextInputs \cup CommentInputs \cup DateInputs :
        Len(TrimString(text)) = 0}

\* C14: UpdateNoteText, AddNoteComment and UpdateNoteCompleteBy called with a
\* text that is empty after trimming return an error, change no note (updatedAt
\* included) and nothing else of the aggregate, and do not write the data file.
C14_EmptyTextRejected ==
    [][ret'.op \in {"UpdateNoteText", "AddNoteComment", "UpdateNoteCompleteBy"} =>
        \A i \in 1..MaxNotes, text \in EmptyTexts :
            ( \/ UpdateNoteText(i, text, TRUE)
              \/ AddNoteComment(i, text, TRUE)
              \/ UpdateNoteCompleteBy(i, text, TRUE) )
            => /\ ret'.err # ""
               /\ ~ret'.wrote
               /\ notes' = notes
               /\ tags' = tags
               /\ lastBackupAt' = lastBackupAt
               /\ updatedAt' = updatedAt
               /\ user' = user
               /\ disk' = disk]_vars

\* C14 witness: a comment of blanks was refused on the first note, which nothing
\* has touched, while the second note was changed earlier in the session.
C14_Witness ==
    /\ ret.op = "AddNoteComment"
    /\ ret.err = "Note's comment text is empty"
    /\ ~ret.wrote
    /\ notes[1] = EditNotes[1]
    /\ notes[2].updatedAt = now
    /\ disk = Marshal(notes, tags, lastBackupAt, updatedAt)

\* The call on note i set its updatedAt to now, kept its createdAt, and changed
\* no other note and no tag.
TouchedOnly(i) ==
    /\ notes'[i].updatedAt = now
    /\ notes'[i].createdAt = notes[i].createdAt
    /\ Len(notes') = Len(notes)
    /\ \A j \in 1..Len(notes) : j # i => notes'[j] = notes[j]
    /\ tags' = tags

\* The call on note i changed no note and no tag.
NothingTouched ==
    /\ notes' = notes
    /\ tags' = tags

\* C17: a call of AddComment, UpdateText, UpdateCompleteBy or UpdateTags that
\* succeeds, and a call of UpdateStatus that changes the status, sets the note's
\* updatedAt to now; no mutator changes the note's createdAt, another note or a
\* tag.
C17_UpdatedAt ==
    [][\A i \in 1..MaxNotes :
        /\ ret'.op = "UpdateNoteText" =>
            \A text \in NewTextInputs :
                UpdateNoteText(i, text, TRUE) =>
                    IF ret'.err = "" THEN TouchedOnly(i) ELSE NothingTouched
        /\ ret'.op = "AddNoteComment" =>
            \A text \in CommentInputs :
                AddNoteComment(i, text, TRUE) =>
                    IF ret'.err = "" THEN TouchedOnly(i) ELSE NothingTouched
        /\ ret'.op = "UpdateNoteCompleteBy" =>
            \A text \in DateInputs :
                UpdateNoteCompleteBy(i, text, TRUE) =>
                    IF ret'.err = "" THEN TouchedOnly(i) ELSE NothingTouched
        /\ ret'.op = "UpdateNoteTags" =>
            \A tagIDs \in EditTagIds :
                UpdateNoteTags(i, tagIDs, TRUE) => (ret'.err = "" /\ TouchedOnly(i))
        /\ ret'.op = "UpdateNoteStatus" =>
            \A status \in StatusInputs :
                UpdateNoteStatus(i, status, TRUE) =>
                    IF notes'[i].status # notes[i].status
                    THEN TouchedOnly(i)
                    ELSE NothingTouched]_vars

\* C17 witness: the tags of the first note were replaced by the last call, its
\* updatedAt is now, and the second note is as it was registered.
C17_Witness ==
    /\ ret.op = "UpdateNoteTags"
    /\ notes[1].tagIds = <<5>>
    /\ notes[1].updatedAt = now
    /\ notes[1].createdAt = EditEpoch
    /\ notes[2] = EditNotes[2]
    /\ tags = BasicTags(EditEpoch)

\* Every stored comment has a text that is not empty after trimming.
CommentsNonEmpty ==
    \A i \in 1..Len(notes) :
        \A k \in 1..Len(notes[i].comments) :
            Len(TrimString(notes[i].comments[k].text)) > 0

\* A step leaves each note's comments as they were, or is a call of
\* AddNoteComment that appends one comment, created now, at the end.
CommentsAppendOnly ==
    /\ Len(notes') = Len(notes)
    /\ \A i \in 1..Len(notes) :
          LET old == notes[i].comments
              new == notes'[i].comments
          IN  \/ new = old
              \/ /\ ret'.op = "AddNoteComment"
                 /\ Len(new) = Len(old) + 1
                 /\ SubSeq(new, 1, Len(old)) = old
                 /\ new[Len(new)].createdAt = now

\* C18: a note's comments change only by AddComment appending one comment at the
\* end; the existing comments keep their text, createdAt and order, none is
\* removed, and every stored comment has non-empty text after trimming.
C18_CommentsAppendOnly == []CommentsNonEmpty /\ [][CommentsAppendOnly]_vars

\* C18 witness: a comment with blanks around its text was appended behind the
\* comment the second note was registered with.
C18_Witness ==
    /\ ret.op = "AddNoteComment"
    /\ ret.err = ""
    /\ Len(notes[2].comments) = 2
    /\ notes[2].comments[1] = Comment("j", EditEpoch)
    /\ notes[2].comments[2] = Comment("k ", now)

-----------------------------------------------------------------------------
(* Properties of persistence (under SpecPersist)                           *)

MutatingOps ==
    {"NewNoteRegistration", "NewTagRegistration", "RegisterBasicTags",
     "UpdateNoteText", "AddNoteComment", "UpdateNoteCompleteBy", "UpdateNoteTags",
     "UpdateNoteStatus", "AutoBackup"}

\* C15: right after a mutating operation (a skipped AutoBackup excepted) has
\* returned without error, the data file is the serialization of the whole
\* in-memory aggregate.
C15_PersistedIsMemory ==
    ( /\ ret.op \in MutatingOps
      /\ ret.err = ""
      /\ ret.op = "AutoBackup" => ret.wrote )
    => /\ disk = Marshal(notes, tags, lastBackupAt, updatedAt)
       /\ Unmarshal(disk).notes = notes
       /\ Unmarshal(disk).tags = tags
       /\ Unmarshal(disk).lastBackupAt = lastBackupAt

\* C15 witness: AddNoteComment returned without error on an aggregate with eight
\* tags, a backup time and a note that is done, and the data file holds all of
\* it.
C15_Witness ==
    /\ ret.op = "AddNoteComment"
    /\ ret.err = ""
    /\ Len(tags) = 8
    /\ lastBackupAt = now
    /\ Len(notes) = 1
    /\ notes[1].status = NoteStatus_Done
    /\ notes[1].text = "c"
    /\ Len(disk.notes[1].comments) = 2
    /\ disk.notes[1].status = NoteStatus_Done
    /\ disk.last_backup_at = now

\* The write of the data file failed: the error is returned, the data file keeps
\* its content, and UpdatedAt of the aggregate was set all the same.
WriteFailed ==
    /\ ret'.err = "write failed"
    /\ ~ret'.wrote
    /\ disk' = disk
    /\ updatedAt' = now

\* C16: when the mutation is valid and the write of the data file fails, the
\* mutator returns the IO error, the mutation stays applied in memory and the
\* data file keeps its content; a successful persist writes the whole,
\* accumulated, in-memory aggregate.
C16_WriteFailure ==
    /\ [](ret.wrote => disk = Marshal(notes, tags, lastBackupAt, updatedAt))
    /\ [][/\ (ret'.op = "RegisterBasicTags" /\ RegisterBasicTags(FALSE) /\ tags = <<>>)
                => (WriteFailed /\ tags' = BasicTags(now))
          /\ (ret'.op = "NewTagRegistration" /\ NewTagRegistration("w", "", "", FALSE)
                    /\ ~SlugPresent("w"))
                => (WriteFailed /\ tags' = Append(tags, Tag(Len(tags), "w", "", now)))
          /\ (ret'.op = "NewNoteRegistration"
                    /\ NewNoteRegistration(<<>>, " a ", FALSE, FALSE))
                => (WriteFailed /\ Len(notes') = Len(notes) + 1
                                /\ notes'[Len(notes')].text = "a")
          /\ (ret'.op = "UpdateNoteText" /\ UpdateNoteText(1, "c", FALSE))
                => (WriteFailed /\ notes'[1].text = "c")
          /\ (ret'.op = "AddNoteComment" /\ AddNoteComment(1, "k ", FALSE))
                => (WriteFailed /\ Len(notes'[1].comments) = Len(notes[1].comments) + 1)
          /\ (ret'.op = "UpdateNoteCompleteBy"
                    /\ UpdateNoteCompleteBy(1, "15-3-2024", FALSE))
                => (WriteFailed /\ notes'[1].completeBy = At(2024, 3, 15, 0))
          /\ (ret'.op = "UpdateNoteTags" /\ UpdateNoteTags(1, <<0>>, FALSE))
                => (WriteFailed /\ notes'[1].tagIds = <<0>>)
          /\ (ret'.op = "UpdateNoteStatus"
                    /\ UpdateNoteStatus(1, NoteStatus_Done, FALSE))
                => (WriteFailed /\ notes'[1].status = NoteStatus_Done)
          /\ (ret'.op = "AutoBackup" /\ AutoBackup(1, "write", FALSE)
                    /\ now - lastBackupAt >= 1)
                => (WriteFailed /\ lastBackupAt' = now)]_vars

\* C16 witness: the write of UpdateNoteText failed: the error was returned, the
\* note has the new text in memory and the data file still holds the old one.
C16_Witness ==
    /\ ret.op = "UpdateNoteText"
    /\ ret.err = "write failed"
    /\ notes[1].text = "c"
    /\ disk.exists
    /\ Len(disk.notes) = 1
    /\ disk.notes[1].text = "a"

-----------------------------------------------------------------------------
(* Search                                                                  *)

\* strings.Contains
Contains(s, substr) ==
    \E k \in 0..(Len(s) - Len(substr)) : SubSeq(s, k + 1, k + Len(substr)) = substr

\* strings.Join
RECURSIVE JoinStrings(_, _)
JoinStrings(strs, sep) ==
    IF strs = <<>> THEN ""
    ELSE IF Len(strs) = 1 THEN strs[1]
    ELSE strs[1] \o sep \o JoinStrings(Tail(strs), sep)

\* Comments.Strings: one string per comment, its body.
CommentsStrings(comments) == [k \in 1..Len(comments) |-> comments[k].text]

\* Note.SearchableText: the text, a blank, and the comments between brackets
\* ("no-comments" when there is none).
SearchableText(note) ==
    LET commentsText ==
            << "[",
               IF Len(note.comments) = 0 THEN "no-comments"
               ELSE JoinStrings(CommentsStrings(note.comments), ", "),
               "]" >>
    IN  JoinStrings(<<note.text, JoinStrings(commentsText, "")>>, " ")

\* The searcher of SearchNotes: whether the note at optIndex of allNotes matches.
searchNotes(allNotes, filterValue, optIndex) ==
    Contains(ToLower(SearchableText(allNotes[optIndex])), ToLower(filterValue))

\* Notes.Less: later updatedAt first.
NoteLess(a, b) == a.updatedAt > b.updatedAt

RECURSIVE InsertNote(_, _)
InsertNote(sorted, note) ==
    IF sorted = <<>> THEN <<note>>
    ELSE IF NoteLess(note, sorted[Len(sorted)]) 
    THEN Append(InsertNote(SubSeq(sorted, 1, Len(sorted) - 1), note), sorted[Len(sorted)])
    ELSE Append(sorted, note)

\* sort.Sort(reminderData.Notes): an insertion sort for the lengths of the model
\* (fewer than 12 notes), which keeps notes of equal updatedAt in their order.
RECURSIVE SortNotes(_)
SortNotes(ns) ==
    IF ns = <<>> THEN <<>>
    ELSE InsertNote(SortNotes(SubSeq(ns, 1, Len(ns) - 1)), ns[Len(ns)])

QueryInputs == {"", "A", "J", "bj", "k", "no-comments", "[", "z"}

\* SearchNotes with the query typed at the prompt: the Note Store is sorted in
\* place and the positions of the notes the searcher keeps are shown.
SearchNotes(query) ==
    /\ notes' = SortNotes(notes)
    /\ ret' = [Called("SearchNotes") EXCEPT
                  !.strs = <<query>>,
                  !.out = SelectSeq([k \in 1..Len(notes) |-> k],
                              LAMBDA k : searchNotes(SortNotes(notes), query, k))]
    /\ UNCHANGED <<tags, lastBackupAt, updatedAt, disk, backups, user, peer, now>>

SearchOps ==
    \/ \E query \in QueryInputs : SearchNotes(query)
    \/ \E i \in 1..MaxNotes : UpdateNoteText(i, "c", TRUE)
    \/ \E i \in 1..MaxNotes : AddNoteComment(i, "k ", TRUE)

NextSearch == SearchOps \/ Tick

\* A session that edits the two notes of InitEdit and searches them.
SpecSearch == InitEdit /\ [][NextSearch]_vars

-----------------------------------------------------------------------------
(* Properties of search (under SpecSearch)                                 *)

\* The position k was kept by the last search.
Matched(k) == \E m \in 1..Len(ret.out) : ret.out[m] = k

\* The note's text followed by its comment bodies.
TextAndComments(note) == note.text \o JoinStrings(CommentsStrings(note.comments), "")

\* The query occurs, whatever the case, in the note's text or in a comment.
OccursInNote(note, query) ==
    \/ Contains(ToLower(note.text), ToLower(query))
    \/ \E k \in 1..Len(note.comments) :
          Contains(ToLower(note.comments[k].text), ToLower(query))

\* C21, as claimed: after a search a note matches iff the lower-cased query is a
\* substring of the lower-cased concatenation of its text and comment bodies,
\* and a query that occurs in neither its text nor a comment does not match it.
C21_SearchAsClaimed ==
    (ret.op = "SearchNotes") =>
        \A k \in 1..Len(notes) :
            /\ Matched(k) <=>
                  Contains(ToLower(TextAndComments(notes[k])), ToLower(ret.strs[1]))
            /\ ~OccursInNote(notes[k], ret.strs[1]) => ~Matched(k)

\* C21 witness: the query "no-comments" matched a note without comments whose
\* text does not hold it.
C21_Witness ==
    /\ ret.op = "SearchNotes"
    /\ ret.strs = <<"no-comments">>
    /\ \E k \in 1..Len(notes) :
          /\ Matched(k)
          /\ Len(notes[k].comments) = 0
          /\ ~OccursInNote(notes[k], "no-comments")

-----------------------------------------------------------------------------
(* Two sessions on one data file                                           *)

\* The aggregate this session holds, as the other session will hold it.
ThisSession ==
    [notes |-> notes, tags |-> tags, lastBackupAt |-> lastBackupAt,
     updatedAt |-> updatedAt]

\* Both sessions have read the same data file (ReadDataFile at their start).
InitSessions ==
    /\ user = BlankUser
    /\ backups = NoBackups
    /\ notes = EditNotes
    /\ tags = BasicTags(EditEpoch)
    /\ lastBackupAt = 0
    /\ updatedAt = EditEpoch
    /\ disk = Marshal(notes, tags, lastBackupAt, updatedAt)
    /\ peer = ThisSession
    /\ now = T0
    /\ ret = NoRet

\* The next call is made in the other session: the two processes share nothing
\* but the data file.
SwitchSession ==
    /\ peer' = ThisSession
    /\ notes' = peer.notes
    /\ tags' = peer.tags
    /\ lastBackupAt' = peer.lastBackupAt
    /\ updatedAt' = peer.updatedAt
    /\ ret' = NoRet
    /\ UNCHANGED <<disk, backups, user, now>>

SessionOps ==
    \/ \E i \in 1..MaxNotes : UpdateNoteText(i, "c", TRUE)
    \/ \E i \in 1..MaxNotes : AddNoteComment(i, "k ", TRUE)
    \/ ReadDataFile

NextSessions == SessionOps \/ SwitchSession

SpecSessions == InitSessions /\ [][NextSessions]_vars

-----------------------------------------------------------------------------
(* Properties of two sessions (under SpecSessions)                         *)

\* C22: nothing in the core prevents or detects a lost update: a mutation whose
\* write succeeds returns no error and replaces the whole data file by the
\* aggregate of the session that wrote, whatever the file held and whatever the
\* other session holds, and the other session is left as it was.
C22_LostUpdate ==
    [][(ret'.op \in {"UpdateNoteText", "AddNoteComment"}) =>
          /\ ret'.err = ""
          /\ ret'.wrote
          /\ disk' = Marshal(notes', tags', lastBackupAt', updatedAt')
          /\ peer' = peer]_vars

\* C22 witness: both sessions loaded the same file; the other session added a
\* comment to the first note and persisted it; this session then changed the
\* text of the second note and its persist returned success: the data file
\* lacks the comment.
C22_Witness ==
    /\ ret.op = "UpdateNoteText"
    /\ ret.err = ""
    /\ ret.wrote
    /\ notes[2].text = "c"
    /\ Len(notes[1].comments) = 0
    /\ Len(peer.notes[1].comments) = 1
    /\ peer.updatedAt = T0
    /\ disk.notes[2].text = "c"
    /\ Len(disk.notes[1].comments) = 0

-----------------------------------------------------------------------------
(* Properties of a failed backup (under SpecBackup)                        *)

\* C23, as claimed: when the gap is at or above the threshold and CreateBackup
\* fails (the data file cannot be read or the backup file cannot be written),
\* AutoBackup returns an error and leaves lastBackupAt unchanged.
C23_BackupErrorReturned ==
    [][\A gapSecs \in GapInputs, outcome \in {"read", "write"}, ok \in WriteOutcomes :
            ( /\ now - lastBackupAt >= gapSecs
              /\ AutoBackup(gapSecs, outcome, ok) )
            => /\ ret'.err # ""
               /\ lastBackupAt' = lastBackupAt]_vars

\* C23 witness: AutoBackup returned no error and advanced lastBackupAt, in memory
\* and in the data file, although no backup file was ever created.
C23_Witness ==
    /\ ret.op = "AutoBackup"
    /\ ret.err = ""
    /\ ret.wrote
    /\ lastBackupAt = now
    /\ disk.last_backup_at = now
    /\ backups.files = {}

-----------------------------------------------------------------------------
(* Properties of unparsed due dates (under SpecEdit)                       *)

\* Texts that are not empty, are not "nil" and are no date of the calendar in the
\* layout day-month-year.
UnparsedDates == {" nil", "31-2-2024"}

\* C24: UpdateCompleteBy with a non-empty text other than "nil" that does not
\* parse as a date returns no error, overwrites completeBy with the Unix value
\* of the zero time (whatever due date the note had) and sets updatedAt to now.
C24_ParseFailureSilent ==
    [][ret'.op = "UpdateNoteCompleteBy" =>
        \A i \in 1..MaxNotes, text \in UnparsedDates :
            UpdateNoteCompleteBy(i, text, TRUE) =>
                /\ UpdateCompleteBy(notes[i], text, now).err = ""
                /\ ret'.err = ""
                /\ notes'[i].completeBy = ZeroTimeUnix
                /\ notes'[i].completeBy # notes[i].completeBy
                     \/ notes[i].completeBy = ZeroTimeUnix
                /\ notes'[i].updatedAt = now]_vars

\* C24 witness: the second note, due 10 March 2019 at first, holds the zero time
\* after a call that returned no error.
C24_Witness ==
    /\ ret.op = "UpdateNoteCompleteBy"
    /\ ret.err = ""
    /\ notes[2].completeBy = ZeroTimeUnix
    /\ notes[2].updatedAt = now
    /\ notes[1].completeBy = 0

-----------------------------------------------------------------------------
(* Properties of the returned collection (under SpecDue)                   *)

\* How many times the note at position i is among the returned notes.
TimesSelected(i) == Cardinality({k \in 1..Len(ret.out) : ret.out[k] = i})

\* C26, as claimed: NotesApprachingDueDate returns no note twice, whatever the
\* aggregate and the instant, a note with both repeat-annually and
\* repeat-monthly inside both windows included.
C26_NoDuplicates ==
    Asked => \A i \in 1..Len(notes) : TimesSelected(i) <= 1

\* C26 witness: a pending note due on 15 March 2024 with both tags was returned
\* twice on 14 March 2024, inside the annual and the monthly window.
C26_Witness ==
    /\ Asked
    /\ now = At(2024, 3, 14, 0)
    /\ notes[1].completeBy = At(2024, 3, 15, 0)
    /\ CarriesSlug(notes[1], "repeat-annually")
    /\ CarriesSlug(notes[1], "repeat-monthly")
    /\ TimesSelected(1) = 2

-----------------------------------------------------------------------------
(* The due-date visibility engine around the ends of years and months      *)

\* The basic tags and an eighth tag registered with the group "repeat" and a
\* slug that names no recurrence policy.
CalendarTags == Append(BasicTags(DueEpoch), Tag(7, "w", "repeat", DueEpoch))

\* completeBy values: midnights at the ends of months and of the leap year 2020.
CalendarDates ==
    {At(2019, 12, 30, 0), At(2020, 1, 2, 0), At(2020, 2, 29, 0), At(2020, 1, 31, 0),
     At(2020, 1, 30, 0)}

CalendarTagIds == {<<>>, <<4>>, <<5>>, <<4, 5>>, <<7>>, <<0, 7>>}

\* The years that end inside the leap year 2024, before it and after it.
CalendarYears == {2022, 2023, 2024}
CalendarHours == {0, 23}

\* The instants the engine is asked at: the last days of a year and the first
\* days of the next, and the ends of February and April 2023.
CalendarNowSet ==
    {At(y, 12, d, h) : y \in CalendarYears, d \in 26..31, h \in CalendarHours}
    \cup {At(y + 1, 1, d, h) : y \in CalendarYears, d \in 1..9, h \in CalendarHours}
    \cup {At(2023, 2, d, h) : d \in {1, 14, 26, 27, 28}, h \in CalendarHours}
    \cup {At(2023, 3, d, h) : d \in {1, 2, 3}, h \in CalendarHours}
    \cup {At(2023, 4, d, h) : d \in {1, 15, 28, 29, 30}, h \in CalendarHours}
    \cup {At(2023, 5, d, h) : d \in {1, 2, 3}, h \in CalendarHours}

InitCalendar ==
    /\ user = BlankUser
    /\ backups = NoBackups
    /\ peer = NoPeer
    /\ \E status \in StatusInputs, tagIDs \in CalendarTagIds,
          completeBy \in CalendarDates :
         notes = << [text |-> "a", comments |-> <<>>, status |-> status,
                     tagIds |-> tagIDs, completeBy |-> completeBy,
                     createdAt |-> DueEpoch, updatedAt |-> DueEpoch] >>
    /\ tags = CalendarTags
    /\ lastBackupAt = 0
    /\ updatedAt = DueEpoch
    /\ disk = Marshal(notes, tags, lastBackupAt, updatedAt)
    /\ now \in CalendarNowSet
    /\ ret = NoRet

\* Time passes to a later instant.
CalendarTick ==
    /\ now' \in CalendarNowSet
    /\ now' > now
    /\ ret' = NoRet
    /\ UNCHANGED <<notes, tags, lastBackupAt, updatedAt, disk, backups, user, peer>>

NextCalendar == NotesApprachingDueDateCall \/ CalendarTick

SpecCalendar == InitCalendar /\ [][NextCalendar]_vars

-----------------------------------------------------------------------------
(* Properties at the ends of years and months (under SpecCalendar)         *)

\* A pending note with the repeat-annually tag only, due on the day of the month.
AnnualOn(note, month, day) ==
    /\ note.status = NoteStatus_Pending
    /\ note.completeBy # 0
    /\ CarriesSlug(note, "repeat-annually")
    /\ ~CarriesSlug(note, "repeat-monthly")
    /\ UnixTimestampToTime(note.completeBy).month = month
    /\ UnixTimestampToTime(note.completeBy).day = day

\* now lies in [occurrence - 3 days, occurrence + 7 days] for the occurrence of
\* the day in the previous, the current or the next calendar year.
InCalendarYearWindows(month, day) ==
    \E y \in {Today.year - 1, Today.year, Today.year + 1} :
        InWindow(now, ParseDateUnix(y, month, day), 3, 7)

\* C25, as claimed: the occurrences of a repeat-annually note are its month and
\* day in the previous, the current and the next calendar year, so that in
\* every year a note due on 30 December is returned at every instant from
\* 27 December to 6 January, and a note due on 2 January from 30 December on.
C25_YearRolloverAsClaimed ==
    Asked =>
        \A i \in 1..Len(notes) :
            /\ AnnualOn(notes[i], 12, 30) =>
                  /\ Selected(i) <=> InCalendarYearWindows(12, 30)
                  /\ ((Today.month = 12 /\ Today.day >= 27)
                         \/ (Today.month = 1 /\ Today.day <= 6)) => Selected(i)
            /\ AnnualOn(notes[i], 1, 2) =>
                  /\ Selected(i) <=> InCalendarYearWindows(1, 2)
                  /\ (Today.month = 12 /\ Today.day >= 30) => Selected(i)

\* C25 witness: in the leap year 2024 a note due on 2 January was returned on
\* 29 December, four days before 2 January 2025.
C25_Witness ==
    /\ Asked
    /\ AnnualOn(notes[1], 1, 2)
    /\ now = At(2024, 12, 29, 0)
    /\ Selected(1)
    /\ ~InCalendarYearWindows(1, 2)

\* A pending note with a due date.
PendingDue(note) == note.status = NoteStatus_Pending /\ note.completeBy # 0

\* The day of the month of completeBy does not exist in the month of now.
NoSuchDayThisMonth(completeBy) ==
    UnixTimestampToTime(completeBy).day > DaysIn(Today.year, Today.month)

\* completeBy is a 29 February and the year of now is not a leap year.
NoSuchDayThisYear(completeBy) ==
    /\ UnixTimestampToTime(completeBy).month = 2
    /\ UnixTimestampToTime(completeBy).day = 29
    /\ ~IsLeapYear(Today.year)

\* C28: when the stored day does not exist in the month of now (repeat-monthly)
\* or the stored 29 February does not exist in the year of now
\* (repeat-annually), the projection yields the zero time and the note is not
\* returned through that policy at that now: it is returned only as often as
\* the other policy, if the note carries its tag, selects it.
C28_InvalidProjection ==
    Asked =>
        \A i \in 1..Len(notes) :
            /\ ( /\ PendingDue(notes[i])
                 /\ CarriesSlug(notes[i], "repeat-monthly")
                 /\ NoSuchDayThisMonth(notes[i].completeBy) )
               => /\ MonthlyOccurrence(notes[i].completeBy) = ZeroTimeUnix
                  /\ ~InMonthlyWindow(notes[i].completeBy)
                  /\ TimesSelected(i) =
                        IF /\ CarriesSlug(notes[i], "repeat-annually")
                           /\ InAnnualWindow(notes[i].completeBy)
                        THEN 1 ELSE 0
            /\ ( /\ PendingDue(notes[i])
                 /\ CarriesSlug(notes[i], "repeat-annually")
                 /\ NoSuchDayThisYear(notes[i].completeBy) )
               => /\ AnnualOccurrence(notes[i].completeBy) = ZeroTimeUnix
                  /\ ~InAnnualWindow(notes[i].completeBy)
                  /\ TimesSelected(i) =
                        IF /\ CarriesSlug(notes[i], "repeat-monthly")
                           /\ InMonthlyWindow(notes[i].completeBy)
                        THEN 1 ELSE 0

\* C28 witness: a pending repeat-monthly note due on a 31st was not returned on
\* 30 April 2023, the last day of a month of 30 days.
C28_Witness ==
    /\ Asked
    /\ now = At(2023, 4, 30, 23)
    /\ PendingDue(notes[1])
    /\ notes[1].tagIds = <<5>>
    /\ UnixTimestampToTime(notes[1].completeBy).day = 31
    /\ ~Selected(1)

\* C29: a pending note with a due date that carries a tag of group "repeat" but
\* neither the repeat-annually nor the repeat-monthly tag is returned at no
\* instant: the plain policy leaves it out and no recurrence policy takes it.
C29_UnknownRepeatSlug ==
    Asked =>
        \A i \in 1..Len(notes) :
            ( /\ PendingDue(notes[i])
              /\ CarriesGroup(notes[i], "repeat")
              /\ ~CarriesSlug(notes[i], "repeat-annually")
              /\ ~CarriesSlug(notes[i], "repeat-monthly") )
            => ~Selected(i)

\* C29 witness: a pending note due on 30 December 2019 whose only tag is the
\* eighth tag (group "repeat", slug "w") was not returned on 30 December 2022.
C29_Witness ==
    /\ Asked
    /\ now = At(2022, 12, 30, 0)
    /\ PendingDue(notes[1])
    /\ notes[1].tagIds = <<7>>
    /\ notes[1].completeBy = At(2019, 12, 30, 0)
    /\ ~Selected(1)

-----------------------------------------------------------------------------
(* The due-date prompt                                                     *)

\* The pattern of ValidateDateString on a text without blanks at its ends: one
\* or two digits of a day 1..31 (01..09 allowed, not 00), "-", one or two
\* digits of a month 1..12, "-", a year 1900..2099.
MatchesDatePattern(input) ==
    LET dLen  == DigitPrefixLen(input, 2)
        rest1 == SubSeq(input, dLen + 1, Len(input))
        sep1  == Len(rest1) > 0 /\ CharAt(rest1, 1) = "-"
        rest2 == IF sep1 THEN Tail(rest1) ELSE ""
        mLen  == DigitPrefixLen(rest2, 2)
        rest3 == SubSeq(rest2, mLen + 1, Len(rest2))
        sep2  == Len(rest3) > 0 /\ CharAt(rest3, 1) = "-"
        rest4 == IF sep2 THEN Tail(rest3) ELSE ""
        shape == /\ dLen > 0 /\ sep1 /\ mLen > 0 /\ sep2
                 /\ Len(rest4) = 4 /\ DigitPrefixLen(rest4, 4) = 4
    IN  /\ shape
        /\ Atoi(SubSeq(input, 1, dLen)) \in 1..31
        /\ Atoi(SubSeq(rest2, 1, mLen)) \in 1..12
        /\ Atoi(rest4) \in 1900..2099

\* ValidateDateString: "" when the trimmed input is "nil" or matches the pattern.
ValidateDateString(input) ==
    LET trimmed == TrimString(input)
    IN  IF trimmed = "nil" \/ MatchesDatePattern(trimmed) THEN "" ELSE "Invalid input"

\* What is typed at the due-date prompt.
PromptDates == {"nil", "15-3-2024", "31-02-2024", "30-2-2023", "32-1-2024", "1-13-2024"}

\* The option "Update due date": the prompt returns a text that
\* ValidateDateString accepts, and UpdateNoteCompleteBy is called with it.
AskCompleteBy(i, promptText, ok) ==
    /\ ValidateDateString(promptText) = ""
    /\ UpdateNoteCompleteBy(i, promptText, ok)

PromptNowSet == {T0, T0 + 1, At(2024, 3, 8, 0), At(2031, 1, 1, 0)}

InitPrompt ==
    /\ user = BlankUser
    /\ backups = NoBackups
    /\ peer = NoPeer
    /\ notes = EditNotes
    /\ tags = BasicTags(EditEpoch)
    /\ lastBackupAt = 0
    /\ updatedAt = EditEpoch
    /\ disk = Marshal(notes, tags, lastBackupAt, updatedAt)
    /\ now \in PromptNowSet
    /\ ret = NoRet

PromptTick ==
    /\ now' \in PromptNowSet
    /\ now' > now
    /\ ret' = NoRet
    /\ UNCHANGED <<notes, tags, lastBackupAt, updatedAt, disk, backups, user, peer>>

PromptOps ==
    \/ \E i \in 1..MaxNotes, promptText \in PromptDates : AskCompleteBy(i, promptText, TRUE)
    \/ \E i \in 1..MaxNotes, status \in StatusInputs : UpdateNoteStatus(i, status, TRUE)
    \/ NotesApprachingDueDateCall

NextPrompt == PromptOps \/ PromptTick

SpecPrompt == InitPrompt /\ [][NextPrompt]_vars

-----------------------------------------------------------------------------
(* Properties of the due-date prompt (under SpecPrompt)                    *)

\* Texts of the pattern that name no day of the calendar.
NoSuchDates == {"31-02-2024", "30-2-2023"}

\* ValidateDateString accepts the texts although they are no dates.
AcceptedNoSuchDates ==
    \A text \in NoSuchDates :
        ValidateDateString(text) = "" /\ ~ParseDayMonthYear(text).ok

\* A pending note without a tag of group "repeat" that holds the zero time is
\* returned by NotesApprachingDueDate.
ZeroTimeSelected ==
    Asked =>
        \A i \in 1..Len(notes) :
            ( /\ notes[i].status = NoteStatus_Pending
              /\ notes[i].completeBy = ZeroTimeUnix
              /\ ~CarriesGroup(notes[i], "repeat") )
            => Selected(i)

\* The update with such a text returns no error and stores the Unix value of the
\* zero time, which is negative.
ZeroTimeStored ==
    (ret'.op = "UpdateNoteCompleteBy") =>
        \A i \in 1..MaxNotes, text \in NoSuchDates :
            AskCompleteBy(i, text, TRUE) =>
                /\ ret'.err = ""
                /\ notes'[i].completeBy = ZeroTimeUnix
                /\ notes'[i].completeBy < 0
                /\ disk'.notes[i].complete_by = ZeroTimeUnix

\* C27: a text that ValidateDateString accepts but that is no date of the
\* calendar makes UpdateCompleteBy return no error and store the Unix value of
\* the zero time, negative and not 0; from then on a pending note without a tag
\* of group "repeat" is returned by NotesApprachingDueDate at every instant.
C27_ValidatedNotParsed ==
    /\ [](AcceptedNoSuchDates /\ ZeroTimeSelected)
    /\ [][ZeroTimeStored]_vars

\* C27 witness: the first note, pending and without tags, holds the zero time
\* after the prompt and was returned in 2031.
C27_Witness ==
    /\ Asked
    /\ now = At(2031, 1, 1, 0)
    /\ notes[1].status = NoteStatus_Pending
    /\ notes[1].completeBy = ZeroTimeUnix
    /\ notes[1].updatedAt = T0
    /\ Selected(1)

-----------------------------------------------------------------------------
(* The display texts of a list of notes                                    *)

\* strconv.Itoa of a natural number.
RECURSIVE Itoa(_)
Itoa(n) == IF n < 10 THEN DigitSeq[n + 1] ELSE Itoa(n \div 10) \o DigitSeq[(n % 10) + 1]

\* The verb %02d on a natural number.
ZeroPad2(n) == IF n < 10 THEN "0" \o Itoa(n) ELSE Itoa(n)

RECURSIVE Spaces(_)
Spaces(n) == IF n <= 0 THEN "" ELSE " " \o Spaces(n - 1)

\* The verb %*v with the width argument width on a string: a negative width
\* pads on the right up to -width, a positive one on the left up to width.
PadStar(width, str) ==
    IF width < 0 THEN str \o Spaces(-width - Len(str))
    ELSE Spaces(width - Len(str)) \o str

UpperChar(c) ==
    IF \E i \in DOMAIN LowerSeq : LowerSeq[i] = c
    THEN UpperSeq[CHOOSE i \in DOMAIN LowerSeq : LowerSeq[i] = c]
    ELSE c

\* strings.ToUpper
RECURSIVE ToUpper(_)
ToUpper(str) ==
    IF Len(str) = 0 THEN "" ELSE UpperChar(CharAt(str, 1)) \o ToUpper(Tail(str))

MonthAbbr ==
    <<"Jan", "Feb", "Mar", "Apr", "May", "Jun", "Jul", "Aug", "Sep", "Oct", "Nov", "Dec">>

\* UnixTimestampToShortTimeStr: "nil" unless the timestamp is positive, else the
\* UTC date in the layout 02-Jan-06.
UnixTimestampToShortTimeStr(unixTimestamp) ==
    IF unixTimestamp > 0
    THEN LET date == UnixTimestampToTime(unixTimestamp)
         IN  ZeroPad2(date.day) \o "-" \o MonthAbbr[date.month] \o "-"
             \o ZeroPad2(date.year % 100)
    ELSE "nil"

\* Whether the loop body of ExternalTexts panics on the note: a slice expression
\* with a negative bound, or the first byte of an empty status.
ExternalTextPanics(note, maxStrLen) ==
    \/ maxStrLen > 0 /\ Len(note.text) > maxStrLen /\ maxStrLen - 3 < 0
    \/ Len(note.status) = 0

\* The loop body of ExternalTexts on a note it does not panic on.
ExternalText(note, maxStrLen) ==
    LET noteText ==
            IF maxStrLen > 0 /\ Len(note.text) > maxStrLen
            THEN SubSeq(note.text, 1, maxStrLen - 3) \o "..."
            ELSE note.text
    IN  PadStar(-maxStrLen, noteText) \o " {C:" \o ZeroPad2(Len(note.comments))
        \o ", S:" \o ToUpper(SubSeq(note.status, 1, 1))
        \o ", D:" \o UnixTimestampToShortTimeStr(note.completeBy) \o "}"

\* Notes.ExternalTexts: one text per note, or a panic.
ExternalTexts(ns, maxStrLen) ==
    IF \E i \in 1..Len(ns) : ExternalTextPanics(ns[i], maxStrLen)
    THEN [panic |-> TRUE, texts |-> <<>>]
    ELSE [panic |-> FALSE, texts |-> [i \in 1..Len(ns) |-> ExternalText(ns[i], maxStrLen)]]

\* The widths asked for: TerminalWidth() - 50 on terminals of 51 to 58 columns.
MaxStrLens == {1, 2, 3, 5, 8}

TextsShown == {"a", "abcd", "abcdefghi"}

\* PrintNotesAndAskOptions renders the list: ExternalTexts(maxStrLen).
ExternalTextsCall(maxStrLen) ==
    /\ LET shown == ExternalTexts(notes, maxStrLen)
       IN  ret' = [Called("ExternalTexts") EXCEPT
                      !.err = IF shown.panic THEN "panic" ELSE "",
                      !.out = <<maxStrLen>>,
                      !.strs = shown.texts]
    /\ UNCHANGED <<notes, tags, lastBackupAt, updatedAt, disk, backups, user, peer, now>>

\* A stored aggregate of two notes; the first varies in text, comments, status
\* and due date.
InitTexts ==
    /\ user = BlankUser
    /\ backups = NoBackups
    /\ peer = NoPeer
    /\ \E text \in TextsShown, status \in StatusInputs,
          completeBy \in {0, ZeroTimeUnix, At(2024, 3, 5, 0)},
          comments \in {<<>>, <<Comment("j", EditEpoch)>>} :
         notes = << [text |-> text, comments |-> comments, status |-> status,
                     tagIds |-> <<>>, completeBy |-> completeBy,
                     createdAt |-> EditEpoch, updatedAt |-> EditEpoch],
                    EditNotes[2] >>
    /\ tags = BasicTags(EditEpoch)
    /\ lastBackupAt = 0
    /\ updatedAt = EditEpoch
    /\ disk = Marshal(notes, tags, lastBackupAt, updatedAt)
    /\ now = T0
    /\ ret = NoRet

NextTexts == \E maxStrLen \in MaxStrLens : ExternalTextsCall(maxStrLen)

SpecTexts == InitTexts /\ [][NextTexts]_vars

-----------------------------------------------------------------------------
(* Properties of the display texts (under SpecTexts)                       *)

\* The part of a display text behind the text column of the width.
SuffixShown(str, width) == SubSeq(str, width + 1, Len(str))

\* The suffix of a note: comment count, status initial, short due date.
SuffixOf(note) ==
    " {C:" \o ZeroPad2(Len(note.comments)) \o ", S:"
    \o ToUpper(SubSeq(note.status, 1, 1)) \o ", D:"
    \o UnixTimestampToShortTimeStr(note.completeBy) \o "}"

\* The returned texts are one per note, in order: a text that fits is shown
\* whole (padded to the width), a longer one is cut to the width and ends in
\* "...", and each is followed by the note's suffix.
TextsWellFormed ==
    LET width == ret.out[1]
    IN  /\ Len(ret.strs) = Len(notes)
        /\ \A i \in 1..Len(notes) :
              LET column == SubSeq(ret.strs[i], 1, width)
              IN  /\ Len(notes[i].text) <= width =>
                        column = notes[i].text \o Spaces(width - Len(notes[i].text))
                  /\ Len(notes[i].text) > width =>
                        /\ Len(column) = width
                        /\ SubSeq(column, width - 2, width) = "..."
                        /\ SubSeq(column, 1, width - 3)
                              = SubSeq(notes[i].text, 1, width - 3)
                  /\ SuffixShown(ret.strs[i], width) = SuffixOf(notes[i])

\* C30, as claimed: for every maxStrLen >= 1 and every list of notes with
\* non-empty status ExternalTexts never fails and returns one well-formed text
\* per note, in input order.
C30_ExternalTextsTotal ==
    (ret.op = "ExternalTexts") => (ret.err = "" /\ TextsWellFormed)

\* From a width of 3 on the call never fails and the texts are well formed.
ExternalTextsFromThree ==
    (ret.op = "ExternalTexts" /\ ret.out[1] >= 3) => (ret.err = "" /\ TextsWellFormed)

\* C30 witness: with maxStrLen = 2 and a note of four characters the call
\* panicked and returned nothing.
C30_Witness ==
    /\ ret.op = "ExternalTexts"
    /\ ret.out = <<2>>
    /\ notes[1].text = "abcd"
    /\ notes[1].status = NoteStatus_Pending
    /\ ret.err = "panic"
    /\ ret.strs = <<>>

====
